---- MODULE Spec2Model ----
(***************************************************************************)
(* Trend Intelligence Pipeline of tiktok-trend-analyzer.                   *)
(*                                                                         *)
(* scripts/hourly_update.py  TrendAnalyzer   : enrichment, clustering,     *)
(*                                             emerging trends, categories *)
(* scripts/ai_analyzer.py    AITrendAnalyzer : topics, predictions,        *)
(*                                             recommendations             *)
(*                                                                         *)
(* Python dicts are records with a field "keys" holding the keys that are  *)
(* present; a key that is absent carries a fixed filler value, so that     *)
(* record equality is dict equality.  Texts are tuples of one-character    *)
(* strings.  Percentages are counted in tenths of a percent, membership    *)
(* weights and strengths in hundredths.                                    *)
(***************************************************************************)
EXTENDS Integers, Sequences, FiniteSets, TLC

VARIABLES
    data,     \* the snapshot / report dict the stages work on
    pc,       \* position of the driver
    trace,    \* the value of data at every call boundary, oldest first
    raised    \* name of the exception that escaped the last call, "" if none

vars == <<data, pc, trace, raised>>

----------------------------------------------------------------------------
(* Bounds of the model *)

MaxHashtags == 3

MaxRankChange == 12

MaxTopicHashtags == 5

MaxCatHashtags == 4

MaxEnrichHashtags == 2

MaxSongs == 2

MaxStageHashtags == 2

MaxForecastHashtags == 2

MaxScrapedSongs == 1

MaxEmergingHashtags == 2

MaxPairedHashtags == 2

MaxMemberHashtags == 8

MaxTextParts == 2

MaxCycles == 2

MaxTargetCount == 2

MaxElements == 2

\* np.random.randint(-5, 6) draws from -5..5
MaxPerturbation == 5

----------------------------------------------------------------------------
(* Generic helpers: dict access, sequences, sorting *)

Get(d, k, default) == IF k \in d.keys THEN d[k] ELSE default

Put(d, k, v) == [d EXCEPT ![k] = v, !.keys = @ \cup {k}]

Min(a, b) == IF a < b THEN a ELSE b

Max(a, b) == IF a > b THEN a ELSE b

Range(s) == { s[i] : i \in 1..Len(s) }

Take(s, n) == SubSeq(s, 1, Min(n, Len(s)))

RECURSIVE Sum(_)
Sum(s) == IF s = <<>> THEN 0 ELSE s[1] + Sum(Tail(s))

RECURSIVE Flatten(_)
Flatten(ss) == IF ss = <<>> THEN <<>> ELSE ss[1] \o Flatten(Tail(ss))

\* list(dict.fromkeys(s)): the distinct elements of s in first-seen order
RECURSIVE FirstSeen(_)
FirstSeen(s) ==
    IF s = <<>> THEN <<>>
    ELSE LET init == FirstSeen(SubSeq(s, 1, Len(s) - 1))
             last == s[Len(s)]
         IN  IF last \in Range(init) THEN init ELSE Append(init, last)

Count(s, x) == Cardinality({ i \in 1..Len(s) : s[i] = x })

\* list.sort(key=..., reverse=True): stable, equal keys keep their order
SortedDesc(s, key(_)) ==
    LET pos(i) == Cardinality({ j \in 1..Len(s) : key(s[j]) > key(s[i]) })
                  + Cardinality({ j \in 1..(i - 1) : key(s[j]) = key(s[i]) }) + 1
    IN  [p \in 1..Len(s) |-> s[CHOOSE i \in 1..Len(s) : pos(i) = p]]

\* list.sort(key=...): stable, ascending
SortedAsc(s, key(_)) ==
    LET pos(i) == Cardinality({ j \in 1..Len(s) : key(s[j]) < key(s[i]) })
                  + Cardinality({ j \in 1..(i - 1) : key(s[j]) = key(s[i]) }) + 1
    IN  [p \in 1..Len(s) |-> s[CHOOSE i \in 1..Len(s) : pos(i) = p]]

----------------------------------------------------------------------------
(* str methods *)

UpperCase == <<"A","B","C","D","E","F","G","H","I","J","K","L","M",
               "N","O","P","Q","R","S","T","U","V","W","X","Y","Z">>

LowerCase == <<"a","b","c","d","e","f","g","h","i","j","k","l","m",
               "n","o","p","q","r","s","t","u","v","w","x","y","z">>

\* str.lower()
Lower(t) ==
    [i \in 1..Len(t) |->
        IF \E k \in 1..Len(UpperCase) : UpperCase[k] = t[i]
        THEN LowerCase[CHOOSE k \in 1..Len(UpperCase) : UpperCase[k] = t[i]]
        ELSE t[i]]

\* str.replace(c, "")
Strip(t, c) == SelectSeq(t, LAMBDA x : x # c)

\* str.replace(c, d) for single characters
Replace(t, c, d) == [i \in 1..Len(t) |-> IF t[i] = c THEN d ELSE t[i]]

\* sub in t
Contains(t, sub) ==
    \E i \in 0..(Len(t) - Len(sub)) : SubSeq(t, i + 1, i + Len(sub)) = sub

\* set(t.split()): the maximal runs of non-blank characters
Words(t) ==
    { SubSeq(t, i, j) : <<i, j>> \in
        { p \in (1..Len(t)) \X (1..Len(t)) :
            /\ p[1] <= p[2]
            /\ \A k \in p[1]..p[2] : t[k] # " "
            /\ (p[1] = 1 \/ t[p[1] - 1] = " ")
            /\ (p[2] = Len(t) \/ t[p[2] + 1] = " ") } }

----------------------------------------------------------------------------
(* Records *)

HashtagKeys == {"hashtag", "rank", "post_count", "ranking_direction",
                "ranking_change", "categories", "lifecycle_stage",
                "period_momentum", "numeric_post_count"}

\* a hashtag dict with no key set
NoHashtag ==
    [keys |-> {}, hashtag |-> <<>>, rank |-> 0, post_count |-> "",
     ranking_direction |-> "", ranking_change |-> 0, categories |-> <<>>,
     lifecycle_stage |-> "", period_momentum |-> "", numeric_post_count |-> 0]

\* a song dict with no key set
NoSong ==
    [keys |-> {}, song_name |-> "", artist |-> "", rank |-> 0, post_count |-> "",
     type |-> "", ranking_direction |-> "", ranking_change |-> 0, categories |-> <<>>,
     lifecycle_stage |-> "", numeric_post_count |-> 0]

\* the snapshot dict as the collection stage delivers it
NoData ==
    [keys |-> {"hashtags_7d", "hashtags_30d", "trending_songs", "breakout_songs"},
     hashtags_7d |-> <<>>, hashtags_30d |-> <<>>,
     trending_songs |-> <<>>, breakout_songs |-> <<>>,
     hashtag_clusters |-> <<>>, emerging_trends |-> <<>>, category_analysis |-> <<>>,
     hashtag_topics |-> <<>>, trend_predictions |-> <<>>,
     content_recommendations |-> <<>>]

----------------------------------------------------------------------------
(* TrendAnalyzer.categorize_hashtag *)

category_keywords ==
    << [category |-> "entertainment", keywords |->
          << <<"d","a","n","c","e">>,
             <<"c","h","a","l","l","e","n","g","e">>,
             <<"m","e","m","e">>,
             <<"f","u","n","n","y">>,
             <<"c","o","m","e","d","y">>,
             <<"v","i","r","a","l">>,
             <<"t","r","e","n","d">> >>],
       [category |-> "lifestyle", keywords |->
          << <<"f","a","s","h","i","o","n">>,
             <<"b","e","a","u","t","y">>,
             <<"o","u","t","f","i","t">>,
             <<"s","t","y","l","e">>,
             <<"a","e","s","t","h","e","t","i","c">> >>],
       [category |-> "food", keywords |->
          << <<"f","o","o","d">>,
             <<"r","e","c","i","p","e">>,
             <<"c","o","o","k","i","n","g">>,
             <<"m","e","a","l">>,
             <<"b","a","k","i","n","g">>,
             <<"c","h","e","f">> >>],
       [category |-> "family", keywords |->
          << <<"m","o","t","h","e","r">>,
             <<"m","o","m">>,
             <<"f","a","m","i","l","y">>,
             <<"d","a","d">>,
             <<"f","a","t","h","e","r">>,
             <<"k","i","d">>,
             <<"p","a","r","e","n","t">>,
             <<"c","h","i","l","d">> >>],
       [category |-> "travel", keywords |->
          << <<"t","r","a","v","e","l">>,
             <<"v","a","c","a","t","i","o","n">>,
             <<"t","r","i","p">>,
             <<"d","e","s","t","i","n","a","t","i","o","n">>,
             <<"j","o","u","r","n","e","y">> >>],
       [category |-> "fitness", keywords |->
          << <<"w","o","r","k","o","u","t">>,
             <<"f","i","t","n","e","s","s">>,
             <<"g","y","m">>,
             <<"e","x","e","r","c","i","s","e">>,
             <<"h","e","a","l","t","h">> >>] >>

\* text = hashtag_text.lower().replace("#", "").replace("_", " ").replace("-", " ")
\* mutant: the text is not lowercased
NormalizeTextCaseKept(hashtag_text) ==
    Replace(Replace(Strip(hashtag_text, "#"), "_", " "), "-", " ")

NormalizeText(hashtag_text) ==
    Replace(Replace(Strip(Lower(hashtag_text), "#"), "_", " "), "-", " ")

categorize_hashtag(hashtag_text) ==
    LET text == NormalizeText(hashtag_text)
        hit(entry) == \E k \in 1..Len(entry.keywords) : Contains(text, entry.keywords[k])
        matched == SelectSeq(category_keywords, hit)
        categories == [i \in 1..Len(matched) |-> matched[i].category]
    IN  IF categories = <<>> THEN <<"other">> ELSE categories

----------------------------------------------------------------------------
(* TrendAnalyzer.are_hashtags_similar, TrendAnalyzer.cluster_hashtags *)

\* mutant: the substring test is made in one direction only
are_hashtags_similar_one_way(hashtag1, hashtag2) ==
    LET text1 == Strip(Lower(hashtag1.hashtag), "#")
        text2 == Strip(Lower(hashtag2.hashtag), "#")
        words1 == Words(text1)
        words2 == Words(text2)
        common_words == words1 \cap words2
    IN  \/ Contains(text2, text1)
        \/ /\ common_words # {}
           /\ 2 * Cardinality(common_words)
                  > Max(Cardinality(words1), Cardinality(words2))

are_hashtags_similar(hashtag1, hashtag2) ==
    LET text1 == Strip(Lower(hashtag1.hashtag), "#")
        text2 == Strip(Lower(hashtag2.hashtag), "#")
        words1 == Words(text1)
        words2 == Words(text2)
        common_words == words1 \cap words2
    IN  \/ Contains(text2, text1)
        \/ Contains(text1, text2)
        \/ /\ common_words # {}
           /\ 2 * Cardinality(common_words)
                  > Max(Cardinality(words1), Cardinality(words2))

\* the cluster object built from cluster_items; n = len(clusters) so far
MakeCluster(cluster_items, n) ==
    LET all_categories ==
            Flatten([i \in 1..Len(cluster_items) |->
                        Get(cluster_items[i], "categories", <<>>)])
        count(c) == Count(all_categories, c)
        top_categories == Take(SortedDesc(FirstSeen(all_categories), count), 2)
    IN  [id |-> <<"cluster_", n>>,
         items |-> [i \in 1..Len(cluster_items) |->
                       [hashtag |-> cluster_items[i].hashtag,
                        rank |-> cluster_items[i].rank]],
         size |-> Len(cluster_items),
         categories |-> top_categories,
         trend_strength |->
             Cardinality({ i \in 1..Len(cluster_items) :
                 Get(cluster_items[i], "lifecycle_stage", "") \in {"rising", "growing"} })]

\* cluster_items of the seed hashtags[i]: the seed, then every later hashtag
\* similar to it (the scan does not look at processed)
ClusterItems(hashtags, i) ==
    <<hashtags[i]>> \o
        SelectSeq(SubSeq(hashtags, i + 1, Len(hashtags)),
                  LAMBDA hashtag2 : are_hashtags_similar(hashtags[i], hashtag2))

\* the loop "for i, hashtag1 in enumerate(hashtags)" from index i on
RECURSIVE ClusterLoop(_, _, _, _)
ClusterLoop(hashtags, i, processed, clusters) ==
    IF i > Len(hashtags) THEN clusters
    ELSE IF hashtags[i].hashtag \in processed
         THEN ClusterLoop(hashtags, i + 1, processed, clusters)
         ELSE LET cluster_items == ClusterItems(hashtags, i)
                  processed2 == processed \cup
                      { cluster_items[k].hashtag : k \in 1..Len(cluster_items) }
              IN  ClusterLoop(hashtags, i + 1, processed2,
                      IF Len(cluster_items) >= 2
                      THEN Append(clusters, MakeCluster(cluster_items, Len(clusters)))
                      ELSE clusters)

cluster_hashtags(hashtags) == ClusterLoop(hashtags, 1, {}, <<>>)

----------------------------------------------------------------------------
(* Inputs of the clustering checks *)

ClusterTexts ==
    { <<"#","c","a","t">>,
      <<"#","d","o","g">>,
      <<"#","c","a","t"," ","d","o","g">>,
      <<"#","d","o","g"," ","c","a","t">>,
      <<"#","c","a","t","l","o","v","e","r","s">>,
      <<"#","C","a","t","l","o","v","e","r">>,
      <<"#","d","a","n","c","e","-","m","o","m">>,
      <<"#","g","y","m">> }

\* the sequences over S of length at most n without repetition
DistinctSeqs(S, n) ==
    { s \in UNION { [1..k -> S] : k \in 0..n } :
        \A i, j \in 1..Len(s) : i # j => s[i] # s[j] }

\* an enriched hashtag record as analyze_trends hands it to cluster_hashtags
EnrichedHashtag(text, rank, stage) ==
    [NoHashtag EXCEPT
        !.keys = {"hashtag", "rank", "categories", "lifecycle_stage"},
        !.hashtag = text, !.rank = rank,
        !.categories = categorize_hashtag(text), !.lifecycle_stage = stage]

InitCluster ==
    /\ \E texts \in DistinctSeqs(ClusterTexts, MaxHashtags) :
       \E stages \in [1..Len(texts) -> {"rising", "stable"}] :
           data = [NoData EXCEPT !.hashtags_7d =
                      [i \in 1..Len(texts) |-> EnrichedHashtag(texts[i], i, stages[i])]]
    /\ pc = "start"
    /\ trace = <<data>>
    /\ raised = ""

\* data["hashtag_clusters"] = self.cluster_hashtags(data["hashtags_7d"])
ClusterHashtags ==
    /\ pc = "start"
    /\ data' = Put(data, "hashtag_clusters", cluster_hashtags(data.hashtags_7d))
    /\ pc' = "done"
    /\ trace' = Append(trace, data')
    /\ UNCHANGED raised

NextCluster == ClusterHashtags

SpecCluster == InitCluster /\ [][NextCluster]_vars

----------------------------------------------------------------------------
(* C1: every cluster returned by cluster_hashtags has at least 2 members,  *)
(* and no hashtag text is a member of two of the returned clusters.        *)

ItemTexts(cluster) == { cluster.items[k].hashtag : k \in 1..Len(cluster.items) }

C1_ClustersDisjoint ==
    pc = "done" =>
        LET clusters == data.hashtag_clusters
        IN  /\ \A i \in 1..Len(clusters) : clusters[i].size >= 2
            /\ \A i, j \in 1..Len(clusters) :
                   i # j => ItemTexts(clusters[i]) \cap ItemTexts(clusters[j]) = {}

----------------------------------------------------------------------------
(* AITrendAnalyzer.predict_trend_future *)

\* hashtags_30d_map = {h["hashtag"]: h for h in hashtags_30d}: the last record
\* of a text wins
InMap30(hashtags_30d, text) == \E i \in 1..Len(hashtags_30d) : hashtags_30d[i].hashtag = text

Lookup30(hashtags_30d, text) ==
    LET last == CHOOSE i \in 1..Len(hashtags_30d) :
                    /\ hashtags_30d[i].hashtag = text
                    /\ \A j \in (i + 1)..Len(hashtags_30d) : hashtags_30d[j].hashtag # text
    IN  hashtags_30d[last]

\* Factor 1: current ranking direction and magnitude
DirectionTerm(hashtag) ==
    IF Get(hashtag, "ranking_direction", "") = "up"
    THEN Min(Get(hashtag, "ranking_change", 0) * 2, 20)
    ELSE IF Get(hashtag, "ranking_direction", "") = "down"
         THEN 0 - Min(Get(hashtag, "ranking_change", 0) * 2, 20)
         ELSE 0

\* Factor 2: current lifecycle stage
StageTerm(hashtag) ==
    LET stage == Get(hashtag, "lifecycle_stage", "")
    IN  IF stage = "rising" THEN 15
        ELSE IF stage = "growing" THEN 10
        ELSE IF stage = "declining" THEN 0 - 15
        ELSE 0

\* mutant: period_momentum is read whether or not the hashtag is in the
\* 30-day data
PeriodTermMomentumAlways(hashtag, hashtags_30d) ==
    LET by_momentum ==
            IF Get(hashtag, "period_momentum", "") = "accelerating" THEN 15
            ELSE IF Get(hashtag, "period_momentum", "") = "decelerating" THEN 0 - 10
            ELSE 0
    IN  IF InMap30(hashtags_30d, hashtag.hashtag)
        THEN LET h30 == Lookup30(hashtags_30d, hashtag.hashtag)
                 by_rank == IF hashtag.rank < h30.rank THEN 10
                            ELSE IF hashtag.rank > h30.rank THEN 0 - 5
                            ELSE 0
             IN  by_rank + by_momentum
        ELSE 5 + by_momentum

\* Factor 3: momentum compared to 30-day data
PeriodTerm(hashtag, hashtags_30d) ==
    IF InMap30(hashtags_30d, hashtag.hashtag)
    THEN LET h30 == Lookup30(hashtags_30d, hashtag.hashtag)
             by_rank == IF hashtag.rank < h30.rank THEN 10
                        ELSE IF hashtag.rank > h30.rank THEN 0 - 5
                        ELSE 0
             by_momentum ==
                 IF Get(hashtag, "period_momentum", "") = "accelerating" THEN 15
                 ELSE IF Get(hashtag, "period_momentum", "") = "decelerating" THEN 0 - 10
                 ELSE 0
         IN  by_rank + by_momentum
    ELSE 5

\* Factor 4: post count and engagement
VolumeTerm(hashtag) ==
    LET post_count == Get(hashtag, "numeric_post_count", 0)
    IN  IF post_count > 1000000 THEN 5
        ELSE IF post_count > 100000 THEN 3
        ELSE 0

\* score before the cap
RawScore(hashtag, hashtags_30d) ==
    50 + DirectionTerm(hashtag) + StageTerm(hashtag)
       + PeriodTerm(hashtag, hashtags_30d) + VolumeTerm(hashtag)

\* mutant: strict comparisons at the thresholds
prediction_status_strict(score) ==
    IF score > 70 THEN "strongly_rising"
    ELSE IF score > 60 THEN "rising"
    ELSE IF score < 30 THEN "strongly_declining"
    ELSE IF score < 40 THEN "declining"
    ELSE "stable"

\* prediction_status, decided on the score before the cap
prediction_status(score) ==
    IF score >= 70 THEN "strongly_rising"
    ELSE IF score >= 60 THEN "rising"
    ELSE IF score <= 30 THEN "strongly_declining"
    ELSE IF score <= 40 THEN "declining"
    ELSE "stable"

\* min(max(score, 5), 95)
CapScore(score) == Min(Max(score, 5), 95)

estimate_trend_longevity(status) ==
    IF status = "strongly_rising" THEN "2-3 weeks"
    ELSE IF status = "rising" THEN "1-2 weeks"
    ELSE IF status = "stable" THEN "5-7 days"
    ELSE IF status = "declining" THEN "2-4 days"
    ELSE "1-2 days"

Prediction(hashtag, hashtags_30d) ==
    LET score == RawScore(hashtag, hashtags_30d)
    IN  [hashtag |-> hashtag.hashtag,
         current_rank |-> hashtag.rank,
         current_stage |-> Get(hashtag, "lifecycle_stage", "stable"),
         score |-> CapScore(score),
         status |-> prediction_status(score),
         longevity |-> estimate_trend_longevity(prediction_status(score))]

\* mutant: the predictions are returned in input order
predict_trend_future_unsorted(hashtags_7d, hashtags_30d) ==
    [i \in 1..Len(hashtags_7d) |-> Prediction(hashtags_7d[i], hashtags_30d)]

predict_trend_future(hashtags_7d, hashtags_30d) ==
    SortedDesc([i \in 1..Len(hashtags_7d) |-> Prediction(hashtags_7d[i], hashtags_30d)],
               LAMBDA p : p.score)

----------------------------------------------------------------------------
(* Inputs of the prediction checks: one current-period hashtag with every   *)
(* combination of direction, change, stage, momentum, volume and prior      *)
(* period presence                                                          *)

Directions == {"up", "down", "stable"}

\* "" stands for a key that is absent
StagesOrNone == {"", "rising", "growing", "stable", "declining"}

MomentaOrNone == {"", "accelerating", "decelerating", "steady", "new"}

PostCounts == {0, 100000, 100001, 1000000, 1000001}

PredictText == <<"#","d","a","n","c","e">>

PredictHashtag(dir, change, stage, momentum, posts) ==
    [NoHashtag EXCEPT
        !.keys = {"hashtag", "rank", "ranking_direction", "ranking_change",
                  "numeric_post_count"}
                 \cup (IF stage = "" THEN {} ELSE {"lifecycle_stage"})
                 \cup (IF momentum = "" THEN {} ELSE {"period_momentum"}),
        !.hashtag = PredictText, !.rank = 2,
        !.ranking_direction = dir, !.ranking_change = change,
        !.lifecycle_stage = stage, !.period_momentum = momentum,
        !.numeric_post_count = posts]

\* the prior-period list: empty, or the same hashtag at rank 1, 2 or 3
Prior30 ==
    { <<>> } \cup
    { << [NoHashtag EXCEPT !.keys = {"hashtag", "rank"},
                           !.hashtag = PredictText, !.rank = r] >> : r \in 1..3 }

InitPredict ==
    /\ \E dir \in Directions, change \in 0..MaxRankChange, stage \in StagesOrNone,
          momentum \in MomentaOrNone, posts \in PostCounts, prior \in Prior30 :
           data = [NoData EXCEPT
                     !.hashtags_7d = << PredictHashtag(dir, change, stage, momentum, posts) >>,
                     !.hashtags_30d = prior]
    /\ pc = "start"
    /\ trace = <<data>>
    /\ raised = ""

\* enhanced_data["trend_predictions"] = self.predict_trend_future(...)
PredictTrendFuture ==
    /\ pc = "start"
    /\ data' = Put(data, "trend_predictions",
                   predict_trend_future(Get(data, "hashtags_7d", <<>>),
                                        Get(data, "hashtags_30d", <<>>)))
    /\ pc' = "done"
    /\ trace' = Append(trace, data')
    /\ UNCHANGED raised

NextPredict == PredictTrendFuture

SpecPredict == InitPredict /\ [][NextPredict]_vars

----------------------------------------------------------------------------
(* C2: every emitted score lies in [5,95], and the emitted status is the   *)
(* one the ordered thresholds give for the emitted score: >= 70            *)
(* strongly_rising, else >= 60 rising, else <= 30 strongly_declining, else *)
(* <= 40 declining, else stable.                                           *)

C2_ScoreAndStatus ==
    pc = "done" =>
        \A i \in 1..Len(data.trend_predictions) :
            LET p == data.trend_predictions[i]
            IN  /\ p.score >= 5
                /\ p.score <= 95
                /\ (p.score >= 70) => (p.status = "strongly_rising")
                /\ (p.score >= 60 /\ p.score < 70) => (p.status = "rising")
                /\ (p.score <= 30) => (p.status = "strongly_declining")
                /\ (p.score > 30 /\ p.score <= 40) => (p.status = "declining")
                /\ (p.score > 40 /\ p.score < 60) => (p.status = "stable")

\* a prediction whose score was cut to 5, and one cut to 95, by the cap
C2_Witness ==
    /\ pc = "done"
    /\ \E i \in 1..Len(data.trend_predictions) :
           /\ data.trend_predictions[i].score = 5
           /\ RawScore(data.hashtags_7d[1], data.hashtags_30d) < 5
           /\ data.trend_predictions[i].status = "strongly_declining"

----------------------------------------------------------------------------
(* AITrendAnalyzer.identify_hashtag_topics                                 *)
(*                                                                         *)
(* CountVectorizer and LatentDirichletAllocation are library calls: their  *)
(* result is the parameter fit, chosen by the caller among the outcomes    *)
(* the library can produce.  fit.outcome is "vectorizer_error" (an         *)
(* exception from fit_transform), "empty_dtm" (dtm.sum() == 0),            *)
(* "lda_error" (an exception from lda.fit) or "ok"; for "ok", fit.scores   *)
(* is lda.transform(dtm), one row of weights (hundredths) per document,    *)
(* and fit.words[t] the words of topic t by decreasing weight.             *)

topic_categories ==
    << [category |-> <<"d","a","n","c","e">>, keywords |->
          << <<"d","a","n","c","e">>,
             <<"d","a","n","c","i","n","g">>,
             <<"c","h","o","r","e","o","g","r","a","p","h","y">>,
             <<"m","o","v","e","s">>,
             <<"r","o","u","t","i","n","e">> >>],
       [category |-> <<"f","a","s","h","i","o","n">>, keywords |->
          << <<"o","u","t","f","i","t">>,
             <<"f","a","s","h","i","o","n">>,
             <<"s","t","y","l","e">>,
             <<"c","l","o","t","h","e","s">>,
             <<"w","e","a","r","i","n","g">>,
             <<"a","e","s","t","h","e","t","i","c">> >>],
       [category |-> <<"f","o","o","d">>, keywords |->
          << <<"f","o","o","d">>,
             <<"r","e","c","i","p","e">>,
             <<"c","o","o","k","i","n","g">>,
             <<"b","a","k","i","n","g">>,
             <<"m","e","a","l">>,
             <<"d","e","l","i","c","i","o","u","s">>,
             <<"e","a","t">> >>],
       [category |-> <<"c","o","m","e","d","y">>, keywords |->
          << <<"f","u","n","n","y">>,
             <<"c","o","m","e","d","y">>,
             <<"j","o","k","e">>,
             <<"h","u","m","o","r">>,
             <<"l","a","u","g","h">>,
             <<"m","e","m","e">> >>],
       [category |-> <<"b","e","a","u","t","y">>, keywords |->
          << <<"m","a","k","e","u","p">>,
             <<"s","k","i","n","c","a","r","e">>,
             <<"b","e","a","u","t","y">>,
             <<"t","u","t","o","r","i","a","l">>,
             <<"r","o","u","t","i","n","e">> >>],
       [category |-> <<"f","i","t","n","e","s","s">>, keywords |->
          << <<"w","o","r","k","o","u","t">>,
             <<"f","i","t","n","e","s","s">>,
             <<"g","y","m">>,
             <<"e","x","e","r","c","i","s","e">>,
             <<"t","r","a","i","n","i","n","g">> >>],
       [category |-> <<"l","i","f","e","s","t","y","l","e">>, keywords |->
          << <<"m","o","r","n","i","n","g">>,
             <<"r","o","u","t","i","n","e">>,
             <<"l","i","f","e">>,
             <<"d","a","y">>,
             <<"p","r","o","d","u","c","t","i","v","e">> >>],
       [category |-> <<"t","r","a","v","e","l">>, keywords |->
          << <<"t","r","a","v","e","l">>,
             <<"t","r","i","p">>,
             <<"a","d","v","e","n","t","u","r","e">>,
             <<"v","a","c","a","t","i","o","n">>,
             <<"d","e","s","t","i","n","a","t","i","o","n">> >>],
       [category |-> <<"e","d","u","c","a","t","i","o","n">>, keywords |->
          << <<"l","e","a","r","n">>,
             <<"f","a","c","t","s">>,
             <<"e","d","u","c","a","t","i","o","n","a","l">>,
             <<"l","e","s","s","o","n">>,
             <<"t","e","a","c","h","i","n","g">> >>],
       [category |-> <<"g","a","m","i","n","g">>, keywords |->
          << <<"g","a","m","e">>,
             <<"g","a","m","i","n","g">>,
             <<"p","l","a","y","e","r">>,
             <<"p","l","a","y">>,
             <<"l","e","v","e","l">> >>],
       [category |-> <<"m","u","s","i","c">>, keywords |->
          << <<"s","o","n","g">>,
             <<"m","u","s","i","c">>,
             <<"s","o","u","n","d">>,
             <<"a","u","d","i","o">>,
             <<"b","e","a","t">>,
             <<"r","e","m","i","x">> >>] >>

generate_default_topics ==
    << [id |-> <<"topic_", 1>>,
        name |-> <<"E","n","t","e","r","t","a","i","n","m","e","n","t"," ","C","o","n","t","e","n","t">>,
        keywords |-> << <<"d","a","n","c","e">>,
                        <<"c","h","a","l","l","e","n","g","e">>,
                        <<"f","u","n","n","y">>,
                        <<"c","o","m","e","d","y">>,
                        <<"t","r","e","n","d">> >>,
        hashtags |-> <<>>,
        strength |-> [num |-> 85, den |-> 1]],
       [id |-> <<"topic_", 2>>,
        name |-> <<"L","i","f","e","s","t","y","l","e"," ","C","o","n","t","e","n","t">>,
        keywords |-> << <<"l","i","f","e","s","t","y","l","e">>,
                        <<"r","o","u","t","i","n","e">>,
                        <<"d","a","i","l","y">>,
                        <<"t","i","p","s">>,
                        <<"h","a","c","k","s">> >>,
        hashtags |-> <<>>,
        strength |-> [num |-> 75, den |-> 1]],
       [id |-> <<"topic_", 3>>,
        name |-> <<"F","o","o","d"," ","C","o","n","t","e","n","t">>,
        keywords |-> << <<"f","o","o","d">>,
                        <<"r","e","c","i","p","e">>,
                        <<"c","o","o","k","i","n","g">>,
                        <<"m","e","a","l">>,
                        <<"d","e","l","i","c","i","o","u","s">> >>,
        hashtags |-> <<>>,
        strength |-> [num |-> 70, den |-> 1]] >>

\* str.capitalize()
Capitalize(t) ==
    IF t = <<>> THEN <<>>
    ELSE LET lowered == Lower(t)
             first == IF \E k \in 1..Len(LowerCase) : LowerCase[k] = lowered[1]
                      THEN UpperCase[CHOOSE k \in 1..Len(LowerCase) : LowerCase[k] = lowered[1]]
                      ELSE lowered[1]
         IN  <<first>> \o Tail(lowered)

generate_topic_name(top_words) ==
    LET hit(entry) == \E i \in 1..Len(Take(top_words, 3)) :
                          top_words[i] \in Range(entry.keywords)
        matched == SelectSeq(topic_categories, hit)
    IN  IF matched # <<>>
        THEN Capitalize(matched[1].category) \o <<" ","C","o","n","t","e","n","t">>
        ELSE IF top_words # <<>>
             THEN Capitalize(top_words[1])
                  \o <<"-","B","a","s","e","d"," ","C","o","n","t","e","n","t">>
             ELSE <<"M","i","s","c"," ","C","o","n","t","e","n","t">>

\* n_components = min(num_topics, len(corpus) // 2 + 1)
NumComponents(num_topics, n) == Min(num_topics, (n \div 2) + 1)

Reverse(s) == [i \in 1..Len(s) |-> s[Len(s) + 1 - i]]

\* topic_scores[:, topic_idx].argsort()[::-1][:5]
TopDocIndices(scores, topic_idx) ==
    Take(Reverse(SortedAsc([d \in 1..Len(scores) |-> d],
                           LAMBDA d : scores[d][topic_idx])), 5)

\* mutant: a weight of 0.2 is already significant
SignificantDocsFromFifth(scores, topic_idx) ==
    SelectSeq(TopDocIndices(scores, topic_idx),
              LAMBDA d : scores[d][topic_idx] >= 20)

\* the documents of top_doc_indices with a weight above 0.2
SignificantDocs(scores, topic_idx) ==
    SelectSeq(TopDocIndices(scores, topic_idx),
              LAMBDA d : scores[d][topic_idx] > 20)

TopicHashtags(hashtags, scores, topic_idx) ==
    LET docs == SignificantDocs(scores, topic_idx)
    IN  [i \in 1..Len(docs) |->
            [hashtag |-> hashtags[docs[i]].hashtag,
             rank |-> hashtags[docs[i]].rank,
             score |-> scores[docs[i]][topic_idx]]]

\* the topic dict of component topic_idx (ids count from 1)
MakeTopic(hashtags, fit, topic_idx) ==
    LET top_words == Take(fit.words[topic_idx], 10)
        topic_hashtags == TopicHashtags(hashtags, fit.scores, topic_idx)
    IN  [id |-> <<"topic_", topic_idx>>,
         name |-> generate_topic_name(top_words),
         keywords |-> Take(top_words, 5),
         hashtags |-> topic_hashtags,
         strength |-> [num |-> Sum([i \in 1..Len(topic_hashtags) |-> topic_hashtags[i].score]),
                       den |-> Len(topic_hashtags)]]

\* strengths are means of at most 5 weights: 60 * num / den is an integer
StrengthKey(topic) == (60 * topic.strength.num) \div topic.strength.den

\* the body of the try block, given that nothing in it raised
ExtractTopics(hashtags, num_topics, fit) ==
    LET k == NumComponents(num_topics, Len(hashtags))
        all == [t \in 1..k |-> MakeTopic(hashtags, fit, t)]
        topics == SortedDesc(SelectSeq(all, LAMBDA topic : topic.hashtags # <<>>), StrengthKey)
    IN  IF topics = <<>> THEN generate_default_topics ELSE topics

\* hashtags[doc_idx]["rank"] of a selected document is missing: KeyError in the try block
RankKeyError(hashtags, num_topics, fit) ==
    \E t \in 1..NumComponents(num_topics, Len(hashtags)) :
        \E d \in Range(SignificantDocs(fit.scores, t)) : "rank" \notin hashtags[d].keys

\* the result of the call: value is what is returned, raised the exception
\* that leaves the call ("" if none)
identify_hashtag_topics(hashtags, num_topics, fit) ==
    IF hashtags = <<>>
    THEN [raised |-> "", value |-> <<>>]
    ELSE IF \E i \in 1..Len(hashtags) : "hashtag" \notin hashtags[i].keys
    THEN [raised |-> "KeyError", value |-> <<>>]
    ELSE IF Len(hashtags) < 5
    THEN [raised |-> "", value |-> generate_default_topics]
    ELSE IF fit.outcome # "ok"
    THEN [raised |-> "", value |-> generate_default_topics]
    ELSE IF RankKeyError(hashtags, num_topics, fit)
    THEN [raised |-> "", value |-> generate_default_topics]
    ELSE [raised |-> "", value |-> ExtractTopics(hashtags, num_topics, fit)]

----------------------------------------------------------------------------
(* Inputs of the topic checks *)

TopicTexts ==
    << <<"#","d","a","n","c","e">>,
       <<"#","c","a","t">>,
       <<"#","d","o","g">>,
       <<"#","f","o","o","d","_","r","e","c","i","p","e">>,
       <<"#","g","y","m">>,
       <<"#","t","r","i","p">>,
       <<"#","m","e","m","e">>,
       <<"#","s","t","y","l","e">> >>

\* record i of the input; the collection stage may have left out a field
TopicHashtag(i, has_text, has_rank) ==
    [NoHashtag EXCEPT
        !.keys = (IF has_text THEN {"hashtag"} ELSE {}) \cup (IF has_rank THEN {"rank"} ELSE {}),
        !.hashtag = IF has_text THEN TopicTexts[i] ELSE <<>>,
        !.rank = IF has_rank THEN i ELSE 0]

\* the first or the last record may lack its text, or its rank (0: none does)
TopicInputs ==
    { [i \in 1..n |-> TopicHashtag(i, i # no_text, i # no_rank)] :
        <<n, no_text, no_rank>> \in
            { q \in (0..MaxTopicHashtags) \X (0..MaxTopicHashtags) \X (0..MaxTopicHashtags) :
                /\ q[2] \in {0, 1, q[1]}
                /\ q[3] \in {0, 1, q[1]}
                /\ q[2] = 0 \/ q[3] = 0 } }

PeakWeights == {100, 60, 21}

TopicWordLists ==
    { << <<"c","a","t">>, <<"d","o","g">>, <<"m","o","v","e","s">> >>,
      << <<"f","i","s","h">>, <<"b","i","r","d">>, <<"d","o","g">>, <<"m","e","m","e">>,
         <<"c","a","t">>, <<"v","l","o","g">> >>,
      << <<"v","l","o","g">> >> }

\* the assignments of a peak topic to each of n documents that are monotone in
\* the document index
PeakMaps(n, k) ==
    { peak \in [1..n -> 1..k] :
        \/ \A d \in 1..(n - 1) : peak[d] <= peak[d + 1]
        \/ \A d \in 1..(n - 1) : peak[d] >= peak[d + 1] }

\* the fits of n documents: every document has one peak topic with weight w,
\* the other topics share the rest
Fits(n, num_topics) ==
    LET k == NumComponents(num_topics, n)
    IN  { [outcome |-> o, scores |-> <<>>, words |-> <<>>] :
            o \in {"vectorizer_error", "empty_dtm", "lda_error"} }
        \cup
        { [outcome |-> "ok",
           scores |-> [d \in 1..n |-> [t \in 1..k |->
                          IF peak[d] = t THEN w
                          ELSE IF k = 1 THEN 0 ELSE (100 - w) \div (k - 1)]],
           words |-> [t \in 1..k |-> IF t = 1 THEN first ELSE << <<"v","l","o","g">> >>]] :
            peak \in PeakMaps(n, k), w \in PeakWeights, first \in TopicWordLists }

InitTopics ==
    /\ \E hashtags \in TopicInputs : data = [NoData EXCEPT !.hashtags_7d = hashtags]
    /\ pc = "start"
    /\ trace = <<data>>
    /\ raised = ""

\* enhanced_data["hashtag_topics"] = self.identify_hashtag_topics(...)
IdentifyHashtagTopics ==
    /\ pc = "start"
    /\ \E fit \in Fits(Len(Get(data, "hashtags_7d", <<>>)), 5) :
           LET r == identify_hashtag_topics(Get(data, "hashtags_7d", <<>>), 5, fit)
           IN  /\ raised' = r.raised
               /\ data' = IF r.raised = "" THEN Put(data, "hashtag_topics", r.value) ELSE data
    /\ pc' = "done"
    /\ trace' = Append(trace, data')

NextTopics == IdentifyHashtagTopics

SpecTopics == InitTopics /\ [][NextTopics]_vars

----------------------------------------------------------------------------
(* C3: for every hashtag list with fewer than 5 entries, the empty list    *)
(* included, identify_hashtag_topics returns exactly the three default     *)
(* topics (strengths 0.85, 0.75, 0.70, no member hashtags); the output is  *)
(* never empty.                                                            *)

WellFormedInput == \A i \in 1..Len(trace[1].hashtags_7d) :
                       {"hashtag", "rank"} \subseteq trace[1].hashtags_7d[i].keys

IsDefaultTopicSet(topics) ==
    /\ Len(topics) = 3
    /\ \A i \in 1..3 : topics[i].hashtags = <<>>
    /\ topics[1].strength = [num |-> 85, den |-> 1]
    /\ topics[2].strength = [num |-> 75, den |-> 1]
    /\ topics[3].strength = [num |-> 70, den |-> 1]

C3_FewHashtagsGiveDefaults ==
    (pc = "done" /\ WellFormedInput) =>
        /\ raised = ""
        /\ data.hashtag_topics # <<>>
        /\ Len(trace[1].hashtags_7d) < 5 => IsDefaultTopicSet(data.hashtag_topics)

----------------------------------------------------------------------------
(* C7: identify_hashtag_topics never raises: whatever happens while it     *)
(* processes its input (vectorizing, fitting, extracting topics, reading   *)
(* record fields), the call returns, and it returns the default topic set  *)
(* when something failed.                                                  *)

C7_NeverRaises == pc = "done" => raised = ""

----------------------------------------------------------------------------
(* TrendAnalyzer.analyze_categories                                        *)

\* the category names in the order category_counts first sees them
CategoryAssignments(hashtags) ==
    Flatten([i \in 1..Len(hashtags) |-> Get(hashtags[i], "categories", <<"other">>)])

\* mutant: the percentages are taken over the number of hashtags
TotalHashtags(hashtags) == Len(hashtags)

\* total = sum(category_counts.values())
TotalAssignments(hashtags) == Len(CategoryAssignments(hashtags))

\* mutant: round((count / total) * 100), to whole percents
PercentageWhole(count, total) ==
    LET q == (count * 100) \div total
        r == (count * 100) % total
    IN  10 * (IF 2 * r > total THEN q + 1
              ELSE IF 2 * r < total THEN q
              ELSE IF q % 2 = 0 THEN q ELSE q + 1)

\* round((count / total) * 100, 1), in tenths of a percent.  round() goes to
\* the nearest tenth and, on an exact tie, to the even one (binary rounding of
\* the quotient can move a value off a tie; ties need total to be a multiple
\* of 16)
Percentage(count, total) ==
    LET q == (count * 1000) \div total
        r == (count * 1000) % total
    IN  IF 2 * r > total THEN q + 1
        ELSE IF 2 * r < total THEN q
        ELSE IF q % 2 = 0 THEN q ELSE q + 1

\* mutant: the top hashtags are taken in list order, without the sort by rank
CategoryStatInListOrder(hashtags, category) ==
    LET category_hashtags ==
            SelectSeq(hashtags, LAMBDA h : category \in Range(Get(h, "categories", <<>>)))
        top == Take(category_hashtags, 3)
    IN  [name |-> category,
         count |-> Count(CategoryAssignments(hashtags), category),
         percentage |-> Percentage(Count(CategoryAssignments(hashtags), category),
                                   TotalAssignments(hashtags)),
         top_hashtags |-> [i \in 1..Len(top) |->
                              [hashtag |-> top[i].hashtag, rank |-> top[i].rank]]]

CategoryStat(hashtags, category) ==
    LET category_hashtags ==
            SortedAsc(SelectSeq(hashtags,
                          LAMBDA h : category \in Range(Get(h, "categories", <<>>))),
                      LAMBDA h : h.rank)
        top == Take(category_hashtags, 3)
    IN  [name |-> category,
         count |-> Count(CategoryAssignments(hashtags), category),
         percentage |-> Percentage(Count(CategoryAssignments(hashtags), category),
                                   TotalAssignments(hashtags)),
         top_hashtags |-> [i \in 1..Len(top) |->
                              [hashtag |-> top[i].hashtag, rank |-> top[i].rank]]]

analyze_categories(hashtags) ==
    IF hashtags = <<>> THEN <<>>
    ELSE LET names == FirstSeen(CategoryAssignments(hashtags))
         IN  SortedDesc([i \in 1..Len(names) |-> CategoryStat(hashtags, names[i])],
                        LAMBDA stat : stat.count)

----------------------------------------------------------------------------
(* Inputs of the category checks *)

\* <<"absent">> stands for a record without the key "categories"
CategoryChoices ==
    { <<"absent">>, <<"entertainment">>, <<"food">>, <<"other">>,
      <<"entertainment", "food">>, <<"entertainment", "family", "fitness">> }

CategoryHashtag(i, rank, categories) ==
    [NoHashtag EXCEPT
        !.keys = {"hashtag", "rank"}
                 \cup (IF categories = <<"absent">> THEN {} ELSE {"categories"}),
        !.hashtag = TopicTexts[i], !.rank = rank,
        !.categories = IF categories = <<"absent">> THEN <<>> ELSE categories]

\* ranks are 1..n, in list order or against it
InitCategories ==
    /\ \E n \in 0..MaxCatHashtags :
       \E cats \in [1..n -> CategoryChoices], reversed \in BOOLEAN :
           data = [NoData EXCEPT !.hashtags_7d =
                     [i \in 1..n |->
                         CategoryHashtag(i, IF reversed THEN n + 1 - i ELSE i, cats[i])]]
    /\ pc = "start"
    /\ trace = <<data>>
    /\ raised = ""

\* data["category_analysis"] = self.analyze_categories(data["hashtags_7d"])
AnalyzeCategories ==
    /\ pc = "start"
    /\ data' = Put(data, "category_analysis", analyze_categories(data.hashtags_7d))
    /\ pc' = "done"
    /\ trace' = Append(trace, data')
    /\ UNCHANGED raised

NextCategories == AnalyzeCategories

SpecCategories == InitCategories /\ [][NextCategories]_vars

\* sum of the reported percentages, in tenths of a percent
PercentageSum == Sum([i \in 1..Len(data.category_analysis) |->
                         data.category_analysis[i].percentage])

\* some hashtag carries more than one category
SomeMultiCategory == \E i \in 1..Len(data.hashtags_7d) :
                         Len(Get(data.hashtags_7d[i], "categories", <<"other">>)) > 1

Abs(x) == IF x < 0 THEN 0 - x ELSE x

----------------------------------------------------------------------------
(* C4 as stated: for a non-empty list in which no hashtag carries more     *)
(* than one category, the percentages sum to exactly 100.0.                *)

C4_SumIsExactly100 ==
    (pc = "done" /\ data.hashtags_7d # <<>> /\ ~SomeMultiCategory) => PercentageSum = 1000

(* C4 amended: for a non-empty list in which no hashtag carries more than  *)
(* one category, the percentages sum to 100.0 up to the rounding of each   *)
(* value: the sum differs from 100.0 by at most 0.05 per category          *)
(* reported.                                                               *)

C4_SumIs100UpToRounding ==
    (pc = "done" /\ data.hashtags_7d # <<>> /\ ~SomeMultiCategory) =>
        2 * Abs(PercentageSum - 1000) <= Len(data.category_analysis)

\* three single-category hashtags in three categories: 33.3 + 33.3 + 33.3
C4_Witness ==
    /\ pc = "done"
    /\ ~SomeMultiCategory
    /\ Len(data.category_analysis) = 3
    /\ PercentageSum = 999

----------------------------------------------------------------------------
(* C5 as stated: when some hashtag carries more than one category, the     *)
(* percentages sum to more than 100.                                       *)

C5_SumExceeds100 ==
    (pc = "done" /\ SomeMultiCategory) => PercentageSum > 1000

(* C5 amended: when some hashtag carries more than one category, the       *)
(* counts sum to more than the number of hashtags, but each percentage is  *)
(* taken over the total number of category assignments, so the             *)
(* percentages still sum to 100.0 up to rounding (within 0.05 per          *)
(* category reported).                                                     *)

C5_MultiCategorySumStays100 ==
    (pc = "done" /\ SomeMultiCategory) =>
        /\ Sum([i \in 1..Len(data.category_analysis) |-> data.category_analysis[i].count])
               > Len(data.hashtags_7d)
        /\ 2 * Abs(PercentageSum - 1000) <= Len(data.category_analysis)

\* one hashtag in two categories: 50.0 + 50.0
C5_Witness ==
    /\ pc = "done"
    /\ SomeMultiCategory
    /\ Len(data.category_analysis) = 2
    /\ PercentageSum = 1000

----------------------------------------------------------------------------
(* TrendAnalyzer.identify_emerging_trends                                  *)

EmergingHashtag(hashtag) ==
    [type |-> "hashtag",
     item |-> hashtag.hashtag,
     confidence |-> Min(95, 50 + Get(hashtag, "ranking_change", 0) * 3),
     categories |-> Get(hashtag, "categories", <<"other">>),
     post_count |-> Get(hashtag, "post_count", "N/A")]

\* f"{song['song_name']} - {song.get('artist', 'Unknown')}"
SongLabel(song) == <<song.song_name, " - ", Get(song, "artist", "Unknown")>>

EmergingSong(song) ==
    [type |-> "song",
     item |-> SongLabel(song),
     confidence |-> 90,
     categories |-> <<"entertainment", "music">>,
     post_count |-> Get(song, "post_count", "N/A")]

\* mutant: a change of 8 already qualifies
IsEmergingFromEight(hashtag) ==
    \/ /\ Get(hashtag, "ranking_direction", "") = "up"
       /\ Get(hashtag, "ranking_change", 0) >= 8
    \/ Get(hashtag, "period_momentum", "") = "accelerating"

IsEmerging(hashtag) ==
    \/ /\ Get(hashtag, "ranking_direction", "") = "up"
       /\ Get(hashtag, "ranking_change", 0) > 8
    \/ Get(hashtag, "period_momentum", "") = "accelerating"

identify_emerging_trends(d) ==
    LET qualifying == SelectSeq(d.hashtags_7d, IsEmerging)
        emerging == [i \in 1..Len(qualifying) |-> EmergingHashtag(qualifying[i])]
                    \o [i \in 1..Len(d.breakout_songs) |-> EmergingSong(d.breakout_songs[i])]
    IN  SortedDesc(emerging, LAMBDA e : e.confidence)

----------------------------------------------------------------------------
(* TrendAnalyzer.analyze_trends                                            *)
(*                                                                         *)
(* The records are updated in place, one key at a time, and the test       *)
(* "song_list == data['breakout_songs']" compares the two lists by value   *)
(* as they are at that moment of the loop.                                 *)

\* mutant: the rising threshold compared one too high
HashtagStageLate(hashtag) ==
    IF Get(hashtag, "ranking_direction", "") = "up" /\ Get(hashtag, "ranking_change", 0) > 11
    THEN "rising"
    ELSE IF Get(hashtag, "ranking_direction", "") = "up" /\ Get(hashtag, "ranking_change", 0) > 5
    THEN "growing"
    ELSE IF Get(hashtag, "ranking_direction", "") = "down" /\ Get(hashtag, "ranking_change", 0) > 10
    THEN "declining"
    ELSE "stable"

HashtagStage(hashtag) ==
    IF Get(hashtag, "ranking_direction", "") = "up" /\ Get(hashtag, "ranking_change", 0) > 10
    THEN "rising"
    ELSE IF Get(hashtag, "ranking_direction", "") = "up" /\ Get(hashtag, "ranking_change", 0) > 5
    THEN "growing"
    ELSE IF Get(hashtag, "ranking_direction", "") = "down" /\ Get(hashtag, "ranking_change", 0) > 10
    THEN "declining"
    ELSE "stable"

EnrichHashtag(hashtag) ==
    Put(Put(hashtag, "categories", categorize_hashtag(hashtag.hashtag)),
        "lifecycle_stage", HashtagStage(hashtag))

EnrichHashtags(hashtag_list) ==
    [i \in 1..Len(hashtag_list) |-> EnrichHashtag(hashtag_list[i])]

\* the branches of a song that is not taken for a breakout song
SongStage(song) ==
    IF Get(song, "ranking_direction", "") = "up" /\ Get(song, "ranking_change", 0) > 5
    THEN "rising"
    ELSE IF Get(song, "ranking_direction", "") = "down" /\ Get(song, "ranking_change", 0) > 5
    THEN "declining"
    ELSE "stable"

\* the loop over data["trending_songs"] from song i on; song_list is the list
\* as updated so far, breakout_songs is still as delivered
RECURSIVE EnrichTrendingFrom(_, _, _)
EnrichTrendingFrom(song_list, breakout_songs, i) ==
    IF i > Len(song_list) THEN song_list
    ELSE LET tagged == [song_list EXCEPT ![i] =
                           Put(@, "categories", <<"entertainment", "music">>)]
             stage == IF tagged = breakout_songs THEN "rising" ELSE SongStage(tagged[i])
         IN  EnrichTrendingFrom([tagged EXCEPT ![i] = Put(@, "lifecycle_stage", stage)],
                                breakout_songs, i + 1)

\* the loop over data["breakout_songs"]: song_list is that list itself
EnrichBreakout(song_list) ==
    [i \in 1..Len(song_list) |->
        Put(Put(song_list[i], "categories", <<"entertainment", "music">>),
            "lifecycle_stage", "rising")]

\* the state of data after the two enrichment loops
Enriched(d) ==
    [d EXCEPT !.hashtags_7d = EnrichHashtags(d.hashtags_7d),
              !.hashtags_30d = EnrichHashtags(d.hashtags_30d),
              !.trending_songs = EnrichTrendingFrom(d.trending_songs, d.breakout_songs, 1),
              !.breakout_songs = EnrichBreakout(d.breakout_songs)]

\* data after analyze_trends(data); the same object is returned
analyze_trends(d) ==
    LET d1 == Enriched(d)
        d2 == Put(d1, "hashtag_clusters", cluster_hashtags(d1.hashtags_7d))
        d3 == Put(d2, "emerging_trends", identify_emerging_trends(d2))
    IN  Put(d3, "category_analysis", analyze_categories(d3.hashtags_7d))

----------------------------------------------------------------------------
(* Inputs of the enrichment checks *)

EnrichTexts ==
    { <<"#","d","a","n","c","e","-","m","o","m">>,
      <<"#","c","a","t">>,
      <<"#","F","o","o","d","_","r","e","c","i","p","e">> }

\* direction and change on both sides of every threshold of the stage rule
HashtagMoves ==
    { <<"up", 11>>, <<"up", 10>>, <<"up", 6>>, <<"up", 5>>,
      <<"down", 11>>, <<"down", 10>>, <<"stable", 0>> }

RawHashtag(text, rank, move) ==
    [NoHashtag EXCEPT
        !.keys = {"hashtag", "rank", "post_count", "ranking_direction", "ranking_change"},
        !.hashtag = text, !.rank = rank, !.post_count = "1.2M",
        !.ranking_direction = move[1], !.ranking_change = move[2]]

SongMoves == { <<"up", 6>>, <<"up", 5>>, <<"down", 6>>, <<"stable", 0>> }

\* a song as delivered: "raw" has neither categories nor lifecycle_stage,
\* "tagged" has the song categories, "staged" has both
SongForms == {"raw", "tagged", "staged"}

RawSong(i, move, form) ==
    [NoSong EXCEPT
        !.keys = {"song_name", "rank", "ranking_direction", "ranking_change"}
                 \cup (IF form \in {"tagged", "staged"} THEN {"categories"} ELSE {})
                 \cup (IF form = "staged" THEN {"lifecycle_stage"} ELSE {}),
        !.song_name = IF i = 1 THEN "song one" ELSE IF i = 2 THEN "song two" ELSE "song more",
        !.rank = i,
        !.ranking_direction = move[1], !.ranking_change = move[2],
        !.categories = IF form \in {"tagged", "staged"}
                       THEN <<"entertainment", "music">> ELSE <<>>,
        !.lifecycle_stage = IF form = "staged" THEN "rising" ELSE ""]

OtherSong ==
    [NoSong EXCEPT
        !.keys = {"song_name", "artist", "rank", "ranking_direction", "ranking_change"},
        !.song_name = "other song", !.artist = "artist", !.rank = 1,
        !.ranking_direction = "down", !.ranking_change = 7]

\* the breakout lists tried with a trending list: none, the same records, the
\* same records as an earlier enrichment left them, another song, one more song
BreakoutChoices(trending_songs) ==
    { <<>>, trending_songs, EnrichBreakout(trending_songs),
      <<OtherSong>>, Append(trending_songs, OtherSong) }

SampleHashtags == << RawHashtag(<<"#","c","a","t">>, 1, <<"up", 11>>) >>

SampleSongs == << RawSong(1, <<"stable", 0>>, "raw") >>

\* either the songs vary and the hashtags are fixed, or the other way round
EnrichInputs(max_hashtags, max_songs) ==
    { [NoData EXCEPT !.hashtags_7d = SampleHashtags,
                     !.trending_songs = trending, !.breakout_songs = breakout] :
        <<trending, breakout>> \in
            UNION { { <<t, b>> : b \in BreakoutChoices(t) } :
                    t \in UNION { { [i \in 1..n |-> RawSong(i, p[i][1], p[i][2])] :
                                    p \in [1..n -> SongMoves \X SongForms] } :
                                  n \in 0..max_songs } } }
    \cup
    { [NoData EXCEPT !.hashtags_7d = [i \in 1..n |-> RawHashtag(p[i][1], i, p[i][2])],
                     !.hashtags_30d = IF both THEN [i \in 1..n |-> RawHashtag(p[i][1], i, p[i][2])]
                                      ELSE <<>>,
                     !.trending_songs = SampleSongs,
                     !.breakout_songs = <<OtherSong>>] :
        <<n, p, both>> \in
            UNION { { <<n, p, both>> : p \in [1..n -> EnrichTexts \X HashtagMoves],
                                       both \in BOOLEAN } :
                    n \in 0..max_hashtags } }

InitEnrich ==
    /\ data \in EnrichInputs(MaxEnrichHashtags, MaxSongs)
    /\ pc = "start"
    /\ trace = <<data>>
    /\ raised = ""

\* analyzed_data = self.analyze_trends(combined_data), and once more on its result
AnalyzeTrends ==
    /\ pc \in {"start", "once"}
    /\ data' = analyze_trends(data)
    /\ pc' = IF pc = "start" THEN "once" ELSE "twice"
    /\ trace' = Append(trace, data')
    /\ UNCHANGED raised

NextEnrich == AnalyzeTrends

SpecEnrich == InitEnrich /\ [][NextEnrich]_vars

\* the hashtag and song records of a snapshot
Records(d) == <<d.hashtags_7d, d.hashtags_30d, d.trending_songs, d.breakout_songs>>

----------------------------------------------------------------------------
(* C6: enrichment is idempotent: analyze_trends applied to the result of   *)
(* analyze_trends yields hashtag and song records identical to those of    *)
(* the first result.                                                       *)

C6_EnrichmentIdempotent == pc = "twice" => Records(trace[3]) = Records(trace[2])

----------------------------------------------------------------------------
(* C10: analyze_trends treats its input as immutable: after the call the   *)
(* raw records and the data object passed in are unchanged.                *)

C10_InputUnchanged == pc = "once" => data = trace[1]

----------------------------------------------------------------------------
(* AITrendAnalyzer.generate_content_recommendations                        *)
(*                                                                         *)
(* np.random.randint(-5, 6) is the parameter rnd: one draw per             *)
(* combination, in the order the combinations are built.                   *)

\* mutant: the score is returned without the cap
calculate_combination_score_uncapped(hashtag, song, draw) ==
    LET both_up == /\ Get(hashtag, "ranking_direction", "") = "up"
                   /\ Get(song, "ranking_direction", "") = "up"
        both_rising == /\ Get(hashtag, "lifecycle_stage", "") = "rising"
                       /\ Get(song, "lifecycle_stage", "") = "rising"
    IN  70 + (IF both_up THEN 15 ELSE 0) + (IF both_rising THEN 10 ELSE 0) + draw

calculate_combination_score(hashtag, song, draw) ==
    LET both_up == /\ Get(hashtag, "ranking_direction", "") = "up"
                   /\ Get(song, "ranking_direction", "") = "up"
        both_rising == /\ Get(hashtag, "lifecycle_stage", "") = "rising"
                       /\ Get(song, "lifecycle_stage", "") = "rising"
        base_score == 70 + (IF both_up THEN 15 ELSE 0)
                         + (IF both_rising THEN 10 ELSE 0) + draw
    IN  Min(Max(base_score, 60), 95)

\* combinations before the sort
Combinations(hashtags, songs, rnd) ==
    LET top_hashtags == Take(hashtags, 5)
        top_songs == Take(songs, 3)
    IN  [i \in 1..Len(top_hashtags) |->
            LET song == top_songs[((i - 1) % Len(top_songs)) + 1]
            IN  [hashtag |-> top_hashtags[i].hashtag,
                 song |-> SongLabel(song),
                 fit_score |-> calculate_combination_score(top_hashtags[i], song, rnd[i])]]

\* mutant: a stock combination is offered when none can be built
TopCombinationsOrStock(hashtags, songs, rnd) ==
    IF hashtags # <<>> /\ songs # <<>>
    THEN Take(SortedDesc(Combinations(hashtags, songs, rnd), LAMBDA c : c.fit_score), 3)
    ELSE << [hashtag |-> <<"#","f","y","p">>, song |-> <<"", " - ", "Unknown">>,
             fit_score |-> 70] >>

TopCombinations(hashtags, songs, rnd) ==
    IF hashtags # <<>> /\ songs # <<>>
    THEN Take(SortedDesc(Combinations(hashtags, songs, rnd), LAMBDA c : c.fit_score), 3)
    ELSE <<>>

\* the branch of _generate_content_approach that is taken: the fixed text of
\* a content kind, the sentence built from the first two keywords, or the
\* generic sentence
generate_content_approach(topic_name, keywords) ==
    LET topic_lower == Lower(topic_name)
        has(w) == Contains(topic_lower, w)
        fixed(kind) == [text |-> kind, keywords |-> <<>>]
    IN  IF has(<<"d","a","n","c","e">>) \/ has(<<"c","h","o","r","e","o","g","r","a","p","h","y">>) THEN fixed("dance")
        ELSE IF has(<<"c","o","m","e","d","y">>) \/ has(<<"f","u","n","n","y">>) THEN fixed("comedy")
        ELSE IF has(<<"f","o","o","d">>) \/ has(<<"r","e","c","i","p","e">>) THEN fixed("food")
        ELSE IF has(<<"f","a","s","h","i","o","n">>) \/ has(<<"o","u","t","f","i","t">>) THEN fixed("fashion")
        ELSE IF has(<<"b","e","a","u","t","y">>) \/ has(<<"m","a","k","e","u","p">>) THEN fixed("beauty")
        ELSE IF has(<<"l","i","f","e","s","t","y","l","e">>) THEN fixed("lifestyle")
        ELSE IF has(<<"f","i","t","n","e","s","s">>) \/ has(<<"w","o","r","k","o","u","t">>) THEN fixed("fitness")
        ELSE IF Len(keywords) >= 2
             THEN [text |-> "keywords", keywords |-> Take(keywords, 2)]
             ELSE fixed("generic")

TextsOf(hashtags) == [i \in 1..Len(hashtags) |-> hashtags[i].hashtag]

\* mutant: without topics, the strategies are built from the default topics
ContentStrategiesFromDefaults(hashtags, topics) ==
    LET used == IF topics # <<>> THEN topics ELSE generate_default_topics
    IN  [i \in 1..Len(Take(used, 3)) |->
            [topic |-> used[i].name,
             hashtags |-> TextsOf(Take(used[i].hashtags, 3)),
             approach |-> generate_content_approach(used[i].name, used[i].keywords)]]

ContentStrategies(hashtags, topics) ==
    IF topics # <<>>
    THEN [i \in 1..Len(Take(topics, 3)) |->
            [topic |-> topics[i].name,
             hashtags |-> TextsOf(Take(topics[i].hashtags, 3)),
             approach |-> generate_content_approach(topics[i].name, topics[i].keywords)]]
    ELSE << [topic |-> <<"E","n","t","e","r","t","a","i","n","m","e","n","t"," ","C","o","n","t","e","n","t">>,
             hashtags |-> TextsOf(Take(hashtags, 3)),
             approach |-> [text |-> "default entertainment", keywords |-> <<>>]],
            [topic |-> <<"T","u","t","o","r","i","a","l"," ","C","o","n","t","e","n","t">>,
             hashtags |-> IF Len(hashtags) > 3 THEN TextsOf(SubSeq(hashtags, 4, Min(6, Len(hashtags))))
                          ELSE <<>>,
             approach |-> [text |-> "default tutorial", keywords |-> <<>>]] >>

generate_audience_insights ==
    << [category |-> "Entertainment", primary_demographic |-> "Gen Z (16-24)",
        peak_engagement_times |-> <<"7-9 PM", "9-11 PM">>,
        retention_drivers |-> "Humor, relatability, and trend participation"],
       [category |-> "Lifestyle", primary_demographic |-> "Millennials (25-34)",
        peak_engagement_times |-> <<"6-8 AM", "8-10 PM">>,
        retention_drivers |-> "Authenticity, aesthetics, and practical tips"],
       [category |-> "Education", primary_demographic |-> "Mixed (18-45)",
        peak_engagement_times |-> <<"12-2 PM", "7-9 PM">>,
        retention_drivers |-> "Concise information, visual demonstrations, and unique facts"] >>

generate_content_recommendations(hashtags, songs, topics, rnd) ==
    [top_combinations |-> TopCombinations(hashtags, songs, rnd),
     content_strategies |-> ContentStrategies(hashtags, topics),
     audience_insights |-> generate_audience_insights]

----------------------------------------------------------------------------
(* The stages that follow enrichment, in the order the two analyzers call  *)
(* them, on the records enrichment produced                                *)

\* mutant: category_hashtags is the list hashtags itself, sorted in place
HashtagsSortedInPlace(hashtags) == SortedAsc(hashtags, LAMBDA h : h.rank)

\* the list hashtags after analyze_categories(hashtags) returned:
\* category_hashtags is a new list, and only that list is sorted
HashtagsAfterCategories(hashtags) == hashtags

StageTexts == { <<"#","d","a","n","c","e","-","m","o","m">>, <<"#","c","a","t">> }

StageMoves == { <<"up", 11>>, <<"stable", 0>> }

\* the two ends of the range randint(-5, 6) draws from
Perturbations == {0 - 5, 5}

\* five hashtags, enough for the topic model to be fitted
FiveHashtags == [i \in 1..5 |-> RawHashtag(TopicTexts[i], 6 - i, <<"up", 2 * i>>)]

\* ranks are 1..n, in list order or against it
StageInputs ==
    { [NoData EXCEPT !.hashtags_7d = [i \in 1..n |->
                          RawHashtag(p[i][1], IF reversed THEN n + 1 - i ELSE i, p[i][2])],
                     !.hashtags_30d = IF both THEN << RawHashtag(<<"#","c","a","t">>, 1, <<"up", 6>>) >>
                                      ELSE <<>>,
                     !.trending_songs = trending,
                     !.breakout_songs = breakout] :
        <<n, p, reversed, both, trending, breakout>> \in
            UNION { { <<n, p, reversed, both, trending, breakout>> :
                        p \in [1..n -> StageTexts \X StageMoves],
                        reversed \in BOOLEAN, both \in BOOLEAN,
                        trending \in { <<>>, << RawSong(1, <<"up", 6>>, "raw") >>,
                                       << RawSong(1, <<"stable", 0>>, "raw"),
                                          RawSong(2, <<"up", 6>>, "raw") >> },
                        breakout \in { <<>>, <<OtherSong>> } } :
                    n \in 0..MaxStageHashtags } }
    \cup { [NoData EXCEPT !.hashtags_7d = FiveHashtags,
                          !.trending_songs = << RawSong(1, <<"up", 6>>, "raw") >>] }

InitStages ==
    /\ \E d \in StageInputs : data = Enriched(d)
    /\ pc = "cluster"
    /\ trace = <<data>>
    /\ raised = ""

StageClusterHashtags ==
    /\ pc = "cluster"
    /\ data' = Put(data, "hashtag_clusters", cluster_hashtags(data.hashtags_7d))
    /\ pc' = "emerging"
    /\ trace' = Append(trace, data')
    /\ UNCHANGED raised

StageEmergingTrends ==
    /\ pc = "emerging"
    /\ data' = Put(data, "emerging_trends", identify_emerging_trends(data))
    /\ pc' = "categories"
    /\ trace' = Append(trace, data')
    /\ UNCHANGED raised

StageAnalyzeCategories ==
    /\ pc = "categories"
    /\ data' = Put([data EXCEPT !.hashtags_7d = HashtagsAfterCategories(data.hashtags_7d)],
                   "category_analysis", analyze_categories(data.hashtags_7d))
    /\ pc' = "topics"
    /\ trace' = Append(trace, data')
    /\ UNCHANGED raised

StageHashtagTopics ==
    /\ pc = "topics"
    /\ \E fit \in Fits(Len(Get(data, "hashtags_7d", <<>>)), 5) :
           LET r == identify_hashtag_topics(Get(data, "hashtags_7d", <<>>), 5, fit)
           IN  /\ raised' = r.raised
               /\ data' = IF r.raised = "" THEN Put(data, "hashtag_topics", r.value) ELSE data
    /\ pc' = "predict"
    /\ trace' = Append(trace, data')

StagePredictTrendFuture ==
    /\ pc = "predict"
    /\ data' = Put(data, "trend_predictions",
                   predict_trend_future(Get(data, "hashtags_7d", <<>>),
                                        Get(data, "hashtags_30d", <<>>)))
    /\ pc' = "recommend"
    /\ trace' = Append(trace, data')
    /\ UNCHANGED raised

StageContentRecommendations ==
    /\ pc = "recommend"
    /\ \E rnd \in [1..Min(5, Len(Get(data, "hashtags_7d", <<>>))) -> Perturbations] :
           data' = Put(data, "content_recommendations",
                       generate_content_recommendations(
                           Get(data, "hashtags_7d", <<>>),
                           Get(data, "trending_songs", <<>>),
                           Get(data, "hashtag_topics", <<>>), rnd))
    /\ pc' = "done"
    /\ trace' = Append(trace, data')
    /\ UNCHANGED raised

NextStages ==
    \/ StageClusterHashtags
    \/ StageEmergingTrends
    \/ StageAnalyzeCategories
    \/ StageHashtagTopics
    \/ StagePredictTrendFuture
    \/ StageContentRecommendations

SpecStages == InitStages /\ [][NextStages]_vars

NoInput(d) ==
    /\ d.hashtags_7d = <<>>
    /\ d.hashtags_30d = <<>>
    /\ d.trending_songs = <<>>
    /\ d.breakout_songs = <<>>

----------------------------------------------------------------------------
(* C8: given empty hashtag and song lists, no stage raises and each        *)
(* returns an empty result: predict_trend_future [], cluster_hashtags [],  *)
(* analyze_categories [], identify_emerging_trends [], and                 *)
(* generate_content_recommendations a bundle with empty top_combinations.  *)

C8_EmptyInEmptyOut ==
    NoInput(trace[1]) =>
        /\ raised = ""
        /\ pc \notin {"cluster"} => "hashtag_clusters" \in data.keys /\ data.hashtag_clusters = <<>>
        /\ pc \notin {"cluster", "emerging"} =>
               "emerging_trends" \in data.keys /\ data.emerging_trends = <<>>
        /\ pc \in {"topics", "predict", "recommend", "done"} =>
               "category_analysis" \in data.keys /\ data.category_analysis = <<>>
        /\ pc \in {"recommend", "done"} =>
               "trend_predictions" \in data.keys /\ data.trend_predictions = <<>>
        /\ pc = "done" =>
               /\ "content_recommendations" \in data.keys
               /\ data.content_recommendations.top_combinations = <<>>

\* the run over the empty snapshot has gone through every stage
C8_Witness ==
    /\ pc = "done"
    /\ NoInput(trace[1])
    /\ Len(trace) = 7
    /\ Len(data.content_recommendations.content_strategies) = 2

----------------------------------------------------------------------------
(* C9: the stages after enrichment leave the hashtag and song records and  *)
(* the input lists unchanged, the order of the lists included.             *)

C9_StagesLeaveInputs == Records(data) = Records(trace[1])

\* every stage has run on two hashtags listed against their ranks, which
\* analyze_categories had to sort
C9_Witness ==
    /\ pc = "done"
    /\ Len(data.hashtags_7d) = 2
    /\ data.hashtags_7d[1].rank > data.hashtags_7d[2].rank
    /\ \E i \in 1..Len(data.category_analysis) :
           /\ Len(data.category_analysis[i].top_hashtags) = 2
           /\ data.category_analysis[i].top_hashtags[1].rank = 1
    /\ data.content_recommendations.top_combinations # <<>>
    /\ data.trend_predictions # <<>>

----------------------------------------------------------------------------
(* Enrichment followed by prediction: the snapshot as the collection stage *)
(* delivers it goes through analyze_trends, and its hashtag lists then     *)
(* through predict_trend_future                                            *)

ForecastTexts ==
    << <<"#","d","a","n","c","e","c","h","a","l","l","e","n","g","e">>,
       <<"#","c","a","t">>,
       <<"#","f","y","p">>,
       <<"#","d","i","y">> >>

ForecastMoves == { <<"up", 12>>, <<"up", 11>>, <<"down", 12>> }

ForecastPosts == {0, 100001}

\* period_momentum is absent, or "accelerating"
ForecastMomenta == {"", "accelerating"}

ForecastHashtag(i, rank, move, posts, momentum) ==
    [NoHashtag EXCEPT
        !.keys = {"hashtag", "rank", "post_count", "ranking_direction", "ranking_change",
                  "numeric_post_count"}
                 \cup (IF momentum = "" THEN {} ELSE {"period_momentum"}),
        !.hashtag = ForecastTexts[((i - 1) % Len(ForecastTexts)) + 1],
        !.rank = rank, !.post_count = IF posts = 0 THEN "" ELSE "100.001K",
        !.ranking_direction = move[1], !.ranking_change = move[2],
        !.period_momentum = momentum, !.numeric_post_count = posts]

\* the prior period: empty, or the first hashtag at rank 2, or the second at rank 1
ForecastPriors ==
    { <<>>,
      << ForecastHashtag(1, 2, <<"up", 6>>, 0, "") >>,
      << ForecastHashtag(2, 1, <<"up", 6>>, 0, "") >> }

ForecastInputs ==
    { [NoData EXCEPT !.hashtags_7d = [i \in 1..n |->
                          ForecastHashtag(i, i, p[i][1], p[i][2], p[i][3])],
                     !.hashtags_30d = prior] :
        <<n, p, prior>> \in
            UNION { { <<n, p, prior>> :
                        p \in [1..n -> ForecastMoves \X ForecastPosts \X ForecastMomenta],
                        prior \in ForecastPriors } :
                    n \in 0..MaxForecastHashtags } }

InitForecast ==
    /\ data \in ForecastInputs
    /\ pc = "start"
    /\ trace = <<data>>
    /\ raised = ""

\* analyzed_data = self.analyze_trends(combined_data)
ForecastAnalyzeTrends ==
    /\ pc = "start"
    /\ data' = analyze_trends(data)
    /\ pc' = "analyzed"
    /\ trace' = Append(trace, data')
    /\ UNCHANGED raised

\* enhanced_data["trend_predictions"] = self.predict_trend_future(...)
ForecastPredictTrendFuture ==
    /\ pc = "analyzed"
    /\ data' = Put(data, "trend_predictions",
                   predict_trend_future(Get(data, "hashtags_7d", <<>>),
                                        Get(data, "hashtags_30d", <<>>)))
    /\ pc' = "predicted"
    /\ trace' = Append(trace, data')
    /\ UNCHANGED raised

NextForecast ==
    \/ ForecastAnalyzeTrends
    \/ ForecastPredictTrendFuture

SpecForecast == InitForecast /\ [][NextForecast]_vars

\* hashtag i of the delivered snapshot moved up by more than 10, is not in
\* the prior period and has no more than 100,000 posts
IsRisingNewcomer(i) ==
    LET raw == trace[1].hashtags_7d[i]
    IN  /\ raw.ranking_direction = "up"
        /\ raw.ranking_change > 10
        /\ \A k \in 1..Len(trace[1].hashtags_30d) : trace[1].hashtags_30d[k].hashtag # raw.hashtag
        /\ raw.numeric_post_count <= 100000

\* the predictions made for hashtag i of the delivered snapshot
PredictionsFor(i) ==
    { j \in 1..Len(data.trend_predictions) :
        /\ data.trend_predictions[j].hashtag = trace[1].hashtags_7d[i].hashtag
        /\ data.trend_predictions[j].current_rank = trace[1].hashtags_7d[i].rank }

----------------------------------------------------------------------------
(* C11: a hashtag with direction up and a change above 10 that is absent   *)
(* from the prior-period list and has no post count above 100,000 gets     *)
(* lifecycle_stage rising from enrichment, and from the predictor score    *)
(* 50+20+15+5 = 90, status strongly_rising and longevity "2-3 weeks".      *)

----------------------------------------------------------------------------
(* C15: predict_trend_future returns exactly one prediction per            *)
(* current-period hashtag, also when the prior-period list is empty, and   *)
(* the returned list is ordered by score non-increasing.                   *)

C15_OnePredictionEachSorted ==
    pc = "predicted" =>
        /\ Len(data.trend_predictions) = Len(trace[1].hashtags_7d)
        /\ \A i \in 1..Len(trace[1].hashtags_7d) : Cardinality(PredictionsFor(i)) = 1
        /\ \A j \in 1..(Len(data.trend_predictions) - 1) :
               data.trend_predictions[j].score >= data.trend_predictions[j + 1].score

\* two hashtags, no prior period, the second one predicted higher than the first
C15_Witness ==
    /\ pc = "predicted"
    /\ trace[1].hashtags_30d = <<>>
    /\ Len(data.trend_predictions) = 2
    /\ data.trend_predictions[1].current_rank = 2
    /\ data.trend_predictions[1].score > data.trend_predictions[2].score

----------------------------------------------------------------------------
(* C12: generate_content_recommendations called with an empty hashtag list *)
(* and an empty song list yields top_combinations = [] and                 *)
(* content_strategies equal to the two fixed fallback strategies,          *)
(* Entertainment Content and Tutorial Content, each with an empty hashtags *)
(* list.                                                                   *)

C12_EmptyGivesFallbackStrategies ==
    (pc = "done" /\ data.hashtags_7d = <<>> /\ data.trending_songs = <<>>) =>
        LET r == data.content_recommendations
        IN  /\ r.top_combinations = <<>>
            /\ Len(r.content_strategies) = 2
            /\ r.content_strategies[1].topic = <<"E","n","t","e","r","t","a","i","n","m","e","n","t"," ","C","o","n","t","e","n","t">>
            /\ r.content_strategies[1].hashtags = <<>>
            /\ r.content_strategies[1].approach.text = "default entertainment"
            /\ r.content_strategies[2].topic = <<"T","u","t","o","r","i","a","l"," ","C","o","n","t","e","n","t">>
            /\ r.content_strategies[2].hashtags = <<>>
            /\ r.content_strategies[2].approach.text = "default tutorial"

\* the recommendations were generated from no hashtag and no trending song,
\* after the topic stage had run on the empty hashtag list
C12_Witness ==
    /\ pc = "done"
    /\ data.hashtags_7d = <<>>
    /\ data.trending_songs = <<>>
    /\ data.breakout_songs # <<>>
    /\ "hashtag_topics" \in data.keys
    /\ data.hashtag_topics = <<>>
    /\ "content_recommendations" \in data.keys

----------------------------------------------------------------------------
(* C13: for an input of two hashtags where the lowercased, '#'-stripped    *)
(* text of one is a substring of the other's, in either order,             *)
(* cluster_hashtags returns a cluster containing both.                     *)

\* the text of hashtag i of the input, lowercased and without '#'
BareText(i) == Strip(Lower(trace[1].hashtags_7d[i].hashtag), "#")

OneInsideTheOther ==
    /\ Len(trace[1].hashtags_7d) = 2
    /\ \/ Contains(BareText(1), BareText(2))
       \/ Contains(BareText(2), BareText(1))

C13_SubstringPairClustered ==
    (pc = "done" /\ OneInsideTheOther) =>
        \E c \in 1..Len(data.hashtag_clusters) :
            { trace[1].hashtags_7d[1].hashtag, trace[1].hashtags_7d[2].hashtag }
                \subseteq ItemTexts(data.hashtag_clusters[c])

\* "#catlovers" listed before "#Catlover": the second text is inside the first
C13_Witness ==
    /\ pc = "done"
    /\ OneInsideTheOther
    /\ Len(BareText(1)) > Len(BareText(2))
    /\ ~Contains(BareText(2), BareText(1))
    /\ trace[1].hashtags_7d[2].hashtag # Lower(trace[1].hashtags_7d[2].hashtag)
    /\ Len(data.hashtag_clusters) = 1

----------------------------------------------------------------------------
(* TikTokTrendScraper.parse_count and calculate_song_metrics               *)

\* str.upper()
Upper(t) ==
    [i \in 1..Len(t) |->
        IF \E k \in 1..Len(LowerCase) : LowerCase[k] = t[i]
        THEN UpperCase[CHOOSE k \in 1..Len(LowerCase) : LowerCase[k] = t[i]]
        ELSE t[i]]

DecimalDigits == <<"0","1","2","3","4","5","6","7","8","9">>

IsDigit(c) == \E k \in 1..10 : DecimalDigits[k] = c

DigitValue(c) == (CHOOSE k \in 1..10 : DecimalDigits[k] = c) - 1

\* the number written by a run of digits; 0 for the empty run
RECURSIVE DigitsValue(_)
DigitsValue(t) ==
    IF t = <<>> THEN 0
    ELSE 10 * DigitsValue(SubSeq(t, 1, Len(t) - 1)) + DigitValue(t[Len(t)])

RECURSIVE PowerOfTen(_)
PowerOfTen(n) == IF n = 0 THEN 1 ELSE 10 * PowerOfTen(n - 1)

\* the last index of the run of digits of t that starts at index i (i - 1 if
\* t[i] is not a digit)
RECURSIVE DigitRunEnd(_, _)
DigitRunEnd(t, i) ==
    IF i <= Len(t) /\ IsDigit(t[i]) THEN DigitRunEnd(t, i + 1) ELSE i - 1

\* parse_count(count_str) for a string or None (the empty tuple), in whole
\* posts: float(number) * multiplier, cut to an integer
parse_count(count_str) ==
    IF count_str = <<>> THEN 0
    ELSE LET upper == Strip(Upper(count_str), ",")
             has(c) == \E i \in 1..Len(upper) : upper[i] = c
             multiplier == IF has("K") THEN 1000
                           ELSE IF has("M") THEN 1000000
                           ELSE IF has("B") THEN 1000000000
                           ELSE 1
             digits == IF has("K") THEN Strip(upper, "K")
                       ELSE IF has("M") THEN Strip(upper, "M")
                       ELSE IF has("B") THEN Strip(upper, "B")
                       ELSE upper
             \* re.search(r'(\d+\.?\d*)', ...): the first digit starts the match
             starts == { i \in 1..Len(digits) : IsDigit(digits[i]) }
         IN  IF starts = {} THEN 0
             ELSE LET first == CHOOSE i \in starts : \A j \in starts : i <= j
                      int_end == DigitRunEnd(digits, first)
                      has_dot == int_end < Len(digits) /\ digits[int_end + 1] = "."
                      frac_end == IF has_dot THEN DigitRunEnd(digits, int_end + 2)
                                  ELSE int_end
                      frac == IF has_dot THEN SubSeq(digits, int_end + 2, frac_end)
                              ELSE <<>>
                      scale == PowerOfTen(Len(frac))
                      written == DigitsValue(SubSeq(digits, first, int_end)) * scale
                                     + DigitsValue(frac)
                  IN  IF multiplier >= scale THEN written * (multiplier \div scale)
                      ELSE (written * multiplier) \div scale

\* the loop over trending_songs
MeasureTrending(trending_songs) ==
    [i \in 1..Len(trending_songs) |->
        LET song == trending_songs[i]
            stage == IF song.ranking_direction = "up" /\ song.ranking_change > 5
                     THEN "rising"
                     ELSE IF song.ranking_direction = "down" /\ song.ranking_change > 5
                     THEN "declining"
                     ELSE "stable"
        IN  Put(Put(Put(song, "numeric_post_count", parse_count(song.post_count)),
                    "lifecycle_stage", stage),
                "categories", <<"entertainment", "music">>)]

\* mutant: breakout songs are staged by the rule of the trending songs
MeasureBreakoutByChange(breakout_songs) == MeasureTrending(breakout_songs)

\* the loop over breakout_songs
MeasureBreakout(breakout_songs) ==
    [i \in 1..Len(breakout_songs) |->
        Put(Put(Put(breakout_songs[i], "numeric_post_count",
                    parse_count(breakout_songs[i].post_count)),
                "lifecycle_stage", "rising"),
            "categories", <<"entertainment", "music">>)]

\* data after calculate_song_metrics(trending_songs, breakout_songs)
calculate_song_metrics(d) ==
    [d EXCEPT !.trending_songs = MeasureTrending(d.trending_songs),
              !.breakout_songs = MeasureBreakout(d.breakout_songs)]

----------------------------------------------------------------------------
(* Songs from extraction to enrichment: extract_songs delivers the two     *)
(* lists, calculate_song_metrics and then analyze_trends update them       *)

PostCountTexts == { <<>>, <<"1","5","K">>, <<"1",".","2","M">> }

\* song_data as extract_songs builds it (the chart image is left out)
ScrapedSong(i, type, move, post_count) ==
    [NoSong EXCEPT
        !.keys = {"song_name", "artist", "post_count", "rank", "type",
                  "ranking_direction", "ranking_change"},
        !.song_name = IF i = 1 THEN "song one" ELSE IF i = 2 THEN "song two" ELSE "song more",
        !.artist = "artist", !.post_count = post_count, !.rank = i, !.type = type,
        !.ranking_direction = move[1], !.ranking_change = move[2]]

ScrapedSongs(type) ==
    UNION { { [i \in 1..n |-> ScrapedSong(i, type, p[i][1], p[i][2])] :
              p \in [1..n -> SongMoves \X PostCountTexts] } :
            n \in 0..MaxScrapedSongs }

InitSongs ==
    /\ \E trending \in ScrapedSongs("trending"), breakout \in ScrapedSongs("breakout") :
           data = [NoData EXCEPT !.trending_songs = trending, !.breakout_songs = breakout]
    /\ pc = "scraped"
    /\ trace = <<data>>
    /\ raised = ""

\* self.calculate_song_metrics(trending_songs, breakout_songs)
CalculateSongMetrics ==
    /\ pc = "scraped"
    /\ data' = calculate_song_metrics(data)
    /\ pc' = "measured"
    /\ trace' = Append(trace, data')
    /\ UNCHANGED raised

\* analyzed_data = self.analyze_trends(combined_data)
SongsAnalyzeTrends ==
    /\ pc = "measured"
    /\ data' = analyze_trends(data)
    /\ pc' = "analyzed"
    /\ trace' = Append(trace, data')
    /\ UNCHANGED raised

NextSongs ==
    \/ CalculateSongMetrics
    \/ SongsAnalyzeTrends

SpecSongs == InitSongs /\ [][NextSongs]_vars

----------------------------------------------------------------------------
(* C14: every breakout song receives lifecycle_stage = rising, whatever    *)
(* its direction and change, both in calculate_song_metrics and in         *)
(* analyze_trends.                                                         *)

C14_BreakoutAlwaysRising ==
    pc \in {"measured", "analyzed"} =>
        /\ Len(data.breakout_songs) = Len(trace[1].breakout_songs)
        /\ \A i \in 1..Len(data.breakout_songs) :
               /\ "lifecycle_stage" \in data.breakout_songs[i].keys
               /\ data.breakout_songs[i].lifecycle_stage = "rising"

\* a breakout song that moved down by more than 5 is rising after both
\* steps, next to a trending song with the same move that is declining
C14_Witness ==
    /\ pc = "analyzed"
    /\ Len(data.breakout_songs) = 1
    /\ data.breakout_songs[1].ranking_direction = "down"
    /\ data.breakout_songs[1].ranking_change > 5
    /\ trace[2].breakout_songs[1].lifecycle_stage = "rising"
    /\ data.breakout_songs[1].lifecycle_stage = "rising"
    /\ data.breakout_songs[1].numeric_post_count = 1200000
    /\ Len(data.trending_songs) = 1
    /\ data.trending_songs[1].ranking_direction = "down"
    /\ data.trending_songs[1].lifecycle_stage = "declining"

----------------------------------------------------------------------------
(* identify_emerging_trends on enriched hashtags whose changes lie on both *)
(* sides of the qualifying threshold and of the confidence cap             *)

EmergingMoves ==
    { <<"up", 8>>, <<"up", 9>>, <<"up", 14>>, <<"up", 16>>, <<"down", 9>>, <<"down", 16>> }

EmergingMomenta == {"", "accelerating"}

EmergingBreakouts ==
    { <<>>, <<OtherSong>>, <<OtherSong, RawSong(2, <<"up", 6>>, "raw")>> }

EmergingInputs ==
    { [NoData EXCEPT !.hashtags_7d = [i \in 1..n |->
                          ForecastHashtag(i, i, p[i][1], 0, p[i][2])],
                     !.breakout_songs = breakout] :
        <<n, p, breakout>> \in
            UNION { { <<n, p, breakout>> :
                        p \in [1..n -> EmergingMoves \X EmergingMomenta],
                        breakout \in EmergingBreakouts } :
                    n \in 0..MaxEmergingHashtags } }

InitEmerging ==
    /\ \E d \in EmergingInputs : data = Enriched(d)
    /\ pc = "start"
    /\ trace = <<data>>
    /\ raised = ""

\* data["emerging_trends"] = self.identify_emerging_trends(data)
IdentifyEmergingTrends ==
    /\ pc = "start"
    /\ data' = Put(data, "emerging_trends", identify_emerging_trends(data))
    /\ pc' = "done"
    /\ trace' = Append(trace, data')
    /\ UNCHANGED raised

NextEmerging == IdentifyEmergingTrends

SpecEmerging == InitEmerging /\ [][NextEmerging]_vars

\* the 7-day hashtags that moved up by more than 8 or are accelerating
Qualifying ==
    { i \in 1..Len(trace[1].hashtags_7d) :
        LET h == trace[1].hashtags_7d[i]
        IN  \/ h.ranking_direction = "up" /\ h.ranking_change > 8
            \/ "period_momentum" \in h.keys /\ h.period_momentum = "accelerating" }

EntriesOfType(type) ==
    { j \in 1..Len(data.emerging_trends) : data.emerging_trends[j].type = type }

----------------------------------------------------------------------------
(* C16: identify_emerging_trends returns one hashtag entry for exactly     *)
(* those 7-day hashtags with (direction up and change > 8) or              *)
(* period_momentum accelerating, each with confidence                      *)
(* min(95, 50 + 3*change), plus one entry with confidence 90 for every     *)
(* breakout song, and the combined list is ordered by confidence           *)
(* non-increasing.                                                         *)

C16_EmergingEntries ==
    pc = "done" =>
        LET e == data.emerging_trends
            hashtags == trace[1].hashtags_7d
            songs == trace[1].breakout_songs
        IN  /\ Cardinality(EntriesOfType("hashtag")) = Cardinality(Qualifying)
            /\ \A i \in Qualifying :
                   \E j \in EntriesOfType("hashtag") :
                       /\ e[j].item = hashtags[i].hashtag
                       /\ e[j].confidence =
                              IF 50 + 3 * hashtags[i].ranking_change > 95 THEN 95
                              ELSE 50 + 3 * hashtags[i].ranking_change
            /\ Cardinality(EntriesOfType("song")) = Len(songs)
            /\ \A k \in 1..Len(songs) :
                   \E j \in EntriesOfType("song") :
                       /\ e[j].item[1] = songs[k].song_name
                       /\ e[j].confidence = 90
            /\ EntriesOfType("hashtag") \cup EntriesOfType("song") = 1..Len(e)
            /\ \A j \in 1..(Len(e) - 1) : e[j].confidence >= e[j + 1].confidence

\* a hashtag capped at 95, then a breakout song at 90, then a hashtag that
\* qualifies by momentum alone at 77
C16_Witness ==
    /\ pc = "done"
    /\ Len(trace[1].hashtags_7d) = 2
    /\ Len(data.emerging_trends) = 3
    /\ data.emerging_trends[1].type = "hashtag"
    /\ data.emerging_trends[1].confidence = 95
    /\ data.emerging_trends[1].item = trace[1].hashtags_7d[2].hashtag
    /\ trace[1].hashtags_7d[2].ranking_change = 16
    /\ data.emerging_trends[2].type = "song"
    /\ data.emerging_trends[3].confidence = 77
    /\ trace[1].hashtags_7d[1].ranking_direction = "down"

----------------------------------------------------------------------------
(* C17: analyze_categories returns the CategoryStats ordered by count      *)
(* non-increasing (empty list for empty input); each stat's percentage is  *)
(* count divided by the total number of category assignments, times 100,   *)
(* and its top_hashtags are the at most 3 members of that category with    *)
(* the smallest ranks, in ascending rank order.                            *)

\* every hashtag of the input has its categories, as enrichment leaves it
AllCategorized ==
    \A i \in 1..Len(trace[1].hashtags_7d) : "categories" \in trace[1].hashtags_7d[i].keys

\* the hashtags of the input that carry category c
MembersOf(c) ==
    { i \in 1..Len(trace[1].hashtags_7d) :
        \E k \in 1..Len(trace[1].hashtags_7d[i].categories) :
            trace[1].hashtags_7d[i].categories[k] = c }

\* the number of times category c is assigned in the input
AssignmentsOf(c) ==
    Cardinality({ q \in (1..Len(trace[1].hashtags_7d)) \X (1..3) :
                    /\ q[2] <= Len(trace[1].hashtags_7d[q[1]].categories)
                    /\ trace[1].hashtags_7d[q[1]].categories[q[2]] = c })

AllAssignments ==
    Cardinality({ q \in (1..Len(trace[1].hashtags_7d)) \X (1..3) :
                    q[2] <= Len(trace[1].hashtags_7d[q[1]].categories) })

\* stat lists every category once, with its count, ordered by count, and
\* with the at most 3 lowest-ranked members in ascending rank order
StatsOrderedWithTopThree ==
    LET stats == data.category_analysis
        hashtags == trace[1].hashtags_7d
    IN  /\ hashtags = <<>> => stats = <<>>
        /\ \A s \in 1..(Len(stats) - 1) : stats[s].count >= stats[s + 1].count
        /\ \A s, t \in 1..Len(stats) : s # t => stats[s].name # stats[t].name
        /\ \A i \in 1..Len(hashtags) : \A k \in 1..Len(hashtags[i].categories) :
               \E s \in 1..Len(stats) : stats[s].name = hashtags[i].categories[k]
        /\ \A s \in 1..Len(stats) :
               LET top == stats[s].top_hashtags
                   members == MembersOf(stats[s].name)
               IN  /\ stats[s].count = AssignmentsOf(stats[s].name)
                   /\ stats[s].count > 0
                   /\ Len(top) = IF Cardinality(members) > 3 THEN 3
                                 ELSE Cardinality(members)
                   /\ \A j \in 1..(Len(top) - 1) : top[j].rank <= top[j + 1].rank
                   /\ \A j \in 1..Len(top) :
                          \E i \in members : /\ hashtags[i].hashtag = top[j].hashtag
                                             /\ hashtags[i].rank = top[j].rank
                   /\ \A i \in members :
                          \/ \E j \in 1..Len(top) : /\ hashtags[i].hashtag = top[j].hashtag
                                                    /\ hashtags[i].rank = top[j].rank
                          \/ \A j \in 1..Len(top) : top[j].rank <= hashtags[i].rank

\* as stated: the percentage is exactly count / total * 100
C17_ExactPercentages ==
    (pc = "done" /\ AllCategorized) =>
        /\ StatsOrderedWithTopThree
        /\ \A s \in 1..Len(data.category_analysis) :
               data.category_analysis[s].percentage * AllAssignments
                   = data.category_analysis[s].count * 1000

\* amended: the percentage is count / total * 100 rounded to one decimal,
\* the nearest tenth of a percent
C17_RoundedPercentages ==
    (pc = "done" /\ AllCategorized) =>
        /\ StatsOrderedWithTopThree
        /\ \A s \in 1..Len(data.category_analysis) :
               2 * Abs(data.category_analysis[s].percentage * AllAssignments
                           - data.category_analysis[s].count * 1000)
                   <= AllAssignments

\* four hashtags of one category listed against their ranks, a fifth
\* assignment to another category: the top three are cut and sorted, and
\* 4/6 and 2/6 are rounded
C17_Witness ==
    /\ pc = "done"
    /\ AllCategorized
    /\ Len(trace[1].hashtags_7d) = 4
    /\ trace[1].hashtags_7d[1].rank = 4
    /\ Len(data.category_analysis) = 2
    /\ data.category_analysis[1].count = 4
    /\ data.category_analysis[2].count = 2
    /\ data.category_analysis[1].percentage = 667
    /\ data.category_analysis[1].top_hashtags[1].rank = 1
    /\ data.category_analysis[1].top_hashtags[3].rank = 3

----------------------------------------------------------------------------
(* generate_content_recommendations on non-empty hashtag and song lists,   *)
(* with every draw of the perturbation.  The draws made by a call are kept *)
(* in trace, between the data before and after the call.                   *)

AllPerturbations == (0 - MaxPerturbation)..MaxPerturbation

\* an enriched hashtag: moved up and rising, or stable
PairedHashtagMoves == { <<"up", 12>>, <<"stable", 0>> }

PairedHashtag(i, move) == EnrichHashtag(ForecastHashtag(i, i, move, 0, ""))

\* enriched trending songs: up and rising, stable, up and stable
PairedSong(i, move) ==
    [EnrichTrendingFrom(<< RawSong(i, move, "raw") >>, <<>>, 1)[1] EXCEPT
        !.song_name = <<"song", i>>]

RisingSong(i) == PairedSong(i, <<"up", 6>>)

StableSong(i) == PairedSong(i, <<"stable", 0>>)

UpSong(i) == PairedSong(i, <<"up", 5>>)

\* six hashtags and four songs: only five hashtags and three songs are used
SixHashtags ==
    << PairedHashtag(1, <<"stable", 0>>), PairedHashtag(2, <<"up", 12>>),
       PairedHashtag(3, <<"up", 6>>), PairedHashtag(4, <<"up", 12>>),
       PairedHashtag(5, <<"stable", 0>>), PairedHashtag(6, <<"up", 12>>) >>

FourSongs == << RisingSong(1), StableSong(2), UpSong(3), RisingSong(4) >>

PairedInputs ==
    { [NoData EXCEPT !.hashtags_7d = [i \in 1..n |-> PairedHashtag(i, p[i])],
                     !.trending_songs = songs] :
        <<n, p, songs>> \in
            UNION { { <<n, p, songs>> :
                        p \in [1..n -> PairedHashtagMoves],
                        songs \in { << RisingSong(1) >>, << StableSong(1), RisingSong(2) >> } } :
                    n \in 1..MaxPairedHashtags } }
    \cup { [NoData EXCEPT !.hashtags_7d = SixHashtags, !.trending_songs = FourSongs] }

InitRecommend ==
    /\ data \in PairedInputs
    /\ pc = "start"
    /\ trace = <<data>>
    /\ raised = ""

\* enhanced_data["content_recommendations"] = self.generate_content_recommendations(...)
GenerateContentRecommendations ==
    /\ pc = "start"
    /\ \E rnd \in [1..Min(5, Len(Get(data, "hashtags_7d", <<>>))) -> AllPerturbations] :
           /\ data' = Put(data, "content_recommendations",
                          generate_content_recommendations(
                              Get(data, "hashtags_7d", <<>>),
                              Get(data, "trending_songs", <<>>),
                              Get(data, "hashtag_topics", <<>>), rnd))
           /\ trace' = trace \o << [draws |-> rnd], data' >>
    /\ pc' = "done"
    /\ UNCHANGED raised

NextRecommend == GenerateContentRecommendations

SpecRecommend == InitRecommend /\ [][NextRecommend]_vars

\* the pairings the call built, in the order it built them
PairingsMade ==
    Combinations(trace[1].hashtags_7d, trace[1].trending_songs, trace[2].draws)

----------------------------------------------------------------------------
(* C18: for non-empty hashtag and song lists,                              *)
(* generate_content_recommendations pairs hashtag i (i < 5) with song      *)
(* (i mod min(3, number of songs)), gives every pairing a fit_score in     *)
(* [60,95] for every value of the random perturbation in [-5,+5], and      *)
(* returns as top_combinations the at most 3 pairings with the highest     *)
(* fit_score in non-increasing order.                                      *)

C18_PairingsScoredAndCut ==
    pc = "done" =>
        LET hashtags == trace[1].hashtags_7d
            songs == trace[1].trending_songs
            made == PairingsMade
            top == data.content_recommendations.top_combinations
            wrap == IF Len(songs) < 3 THEN Len(songs) ELSE 3
        IN  /\ Len(made) = IF Len(hashtags) < 5 THEN Len(hashtags) ELSE 5
            /\ \A i \in 1..Len(made) :
                   /\ made[i].hashtag = hashtags[i].hashtag
                   /\ made[i].song[1] = songs[((i - 1) % wrap) + 1].song_name
                   /\ made[i].fit_score >= 60
                   /\ made[i].fit_score <= 95
            /\ Len(top) = IF Len(made) < 3 THEN Len(made) ELSE 3
            /\ \A j \in 1..(Len(top) - 1) : top[j].fit_score >= top[j + 1].fit_score
            /\ \E chosen \in [1..Len(top) -> 1..Len(made)] :
                   /\ \A j, k \in 1..Len(top) : j # k => chosen[j] # chosen[k]
                   /\ \A j \in 1..Len(top) : top[j] = made[chosen[j]]
                   /\ \A i \in 1..Len(made) :
                          (\A j \in 1..Len(top) : chosen[j] # i) =>
                              made[i].fit_score <= top[Len(top)].fit_score

\* five of six hashtags paired with three of four songs; the fourth
\* hashtag, paired again with the first song, is capped at 95 and comes
\* first, and the first hashtag, drawn down to 65, is left out
C18_Witness ==
    /\ pc = "done"
    /\ Len(trace[1].hashtags_7d) = 6
    /\ Len(trace[1].trending_songs) = 4
    /\ Len(PairingsMade) = 5
    /\ trace[2].draws[4] = 5
    /\ trace[2].draws[1] = 0 - 5
    /\ PairingsMade[4].song = PairingsMade[1].song
    /\ PairingsMade[1].fit_score = 65
    /\ data.content_recommendations.top_combinations[1] = PairingsMade[4]
    /\ data.content_recommendations.top_combinations[1].fit_score = 95
    /\ Len(data.content_recommendations.top_combinations) = 3

----------------------------------------------------------------------------
(* C19: the prediction score equals the clamp to [5,95] of 50 + direction  *)
(* term (+min(2*change,20) if up, -min(2*change,20) if down) + stage term  *)
(* (rising +15, growing +10, declining -15, stable 0) + cross-period term  *)
(* + volume term (+5 if post count > 1,000,000, else +3 if > 100,000),     *)
(* where the cross-period term is +5 exactly when the hashtag is absent    *)
(* from the prior period and otherwise is (+10 if rank improved, -5 if     *)
(* worsened) plus (+15 if accelerating, -10 if decelerating); the momentum *)
(* adjustment is never applied to a hashtag absent from the prior period.  *)

\* the hashtag handed to the predictor, and whether the prior period has it
Predicted == trace[1].hashtags_7d[1]

InPriorPeriod == trace[1].hashtags_30d # <<>>

ExpectedScore ==
    LET h == Predicted
        twice == IF 2 * h.ranking_change > 20 THEN 20 ELSE 2 * h.ranking_change
        direction == IF h.ranking_direction = "up" THEN twice
                     ELSE IF h.ranking_direction = "down" THEN 0 - twice
                     ELSE 0
        stage == IF "lifecycle_stage" \notin h.keys THEN 0
                 ELSE IF h.lifecycle_stage = "rising" THEN 15
                 ELSE IF h.lifecycle_stage = "growing" THEN 10
                 ELSE IF h.lifecycle_stage = "declining" THEN 0 - 15
                 ELSE 0
        momentum == IF "period_momentum" \notin h.keys THEN 0
                    ELSE IF h.period_momentum = "accelerating" THEN 15
                    ELSE IF h.period_momentum = "decelerating" THEN 0 - 10
                    ELSE 0
        prior_rank == trace[1].hashtags_30d[1].rank
        cross == IF ~InPriorPeriod THEN 5
                 ELSE (IF h.rank < prior_rank THEN 10
                       ELSE IF h.rank > prior_rank THEN 0 - 5
                       ELSE 0) + momentum
        volume == IF h.numeric_post_count > 1000000 THEN 5
                  ELSE IF h.numeric_post_count > 100000 THEN 3
                  ELSE 0
        total == 50 + direction + stage + cross + volume
    IN  IF total < 5 THEN 5 ELSE IF total > 95 THEN 95 ELSE total

C19_ScoreFormula ==
    pc = "done" =>
        /\ Len(data.trend_predictions) = 1
        /\ data.trend_predictions[1].score = ExpectedScore

\* an accelerating hashtag that is not in the prior period scores 55: the
\* novelty bonus and nothing for its momentum
C19_Witness ==
    /\ pc = "done"
    /\ ~InPriorPeriod
    /\ "period_momentum" \in Predicted.keys
    /\ Predicted.period_momentum = "accelerating"
    /\ Predicted.ranking_direction = "stable"
    /\ "lifecycle_stage" \notin Predicted.keys
    /\ Predicted.numeric_post_count = 0
    /\ data.trend_predictions[1].score = 55

----------------------------------------------------------------------------
(* C20: in enrichment, a song of the trending list gets lifecycle_stage    *)
(* rising only if direction up and change > 5, declining if direction down *)
(* and change > 5, and stable otherwise, for every content of the trending *)
(* and breakout lists, including when the two lists hold equal records.    *)

C20_TrendingStagedByChange ==
    pc = "once" =>
        \A i \in 1..Len(trace[1].trending_songs) :
            LET song == trace[1].trending_songs[i]
                staged == data.trending_songs[i].lifecycle_stage
            IN  /\ staged = "rising" =>
                       (song.ranking_direction = "up" /\ song.ranking_change > 5)
                /\ (song.ranking_direction = "down" /\ song.ranking_change > 5) =>
                       staged = "declining"
                /\ staged \in {"rising", "declining", "stable"}

----------------------------------------------------------------------------
(* identify_hashtag_topics on five and more well-formed hashtags: the      *)
(* fitted membership weights are rows of hundredths, one per hashtag.  The *)
(* fit a call worked with is kept in trace, between the data before and    *)
(* after the call.                                                         *)

MemberHashtag(i) ==
    [NoHashtag EXCEPT !.keys = {"hashtag", "rank"},
                      !.hashtag = TopicTexts[((i - 1) % Len(TopicTexts)) + 1],
                      !.rank = i]

\* the membership rows of one document over k topics: topic t has weight w,
\* the other topics share the rest
MemberRows(k) ==
    { [t \in 1..k |-> IF t = peak THEN w ELSE (100 - w) \div (k - 1)] :
        peak \in 1..k, w \in {100, 60, 20} }

\* the first documents have one row, the others another
MemberFits(n, num_topics) ==
    LET k == NumComponents(num_topics, n)
    IN  { [outcome |-> "ok",
           scores |-> [d \in 1..n |-> IF d <= split THEN head ELSE rest],
           words |-> [t \in 1..k |->
                         IF t = 1
                         THEN << <<"f","i","s","h">>, <<"b","i","r","d">>, <<"d","o","g">>,
                                 <<"m","e","m","e">>, <<"c","a","t">>, <<"v","l","o","g">> >>
                         ELSE << <<"v","l","o","g">> >>]] :
            head \in MemberRows(k), rest \in MemberRows(k), split \in 0..n }

InitMembers ==
    /\ \E n \in 5..MaxMemberHashtags :
           data = [NoData EXCEPT !.hashtags_7d = [i \in 1..n |-> MemberHashtag(i)]]
    /\ pc = "start"
    /\ trace = <<data>>
    /\ raised = ""

\* enhanced_data["hashtag_topics"] = self.identify_hashtag_topics(...)
IdentifyTopicsOfMembers ==
    /\ pc = "start"
    /\ \E fit \in MemberFits(Len(Get(data, "hashtags_7d", <<>>)), 5) :
           LET r == identify_hashtag_topics(Get(data, "hashtags_7d", <<>>), 5, fit)
           IN  /\ raised' = r.raised
               /\ data' = IF r.raised = "" THEN Put(data, "hashtag_topics", r.value) ELSE data
               /\ trace' = trace \o << [fit |-> fit], data' >>
    /\ pc' = "done"

NextMembers == IdentifyTopicsOfMembers

SpecMembers == InitMembers /\ [][NextMembers]_vars

\* some document has a weight above 0.2 for some topic
SomeWeightQualifies ==
    \E d \in 1..Len(trace[2].fit.scores) :
        \E t \in 1..Len(trace[2].fit.scores[d]) : trace[2].fit.scores[d][t] > 20

----------------------------------------------------------------------------
(* C21: for an input of at least 5 hashtags and any fitted membership      *)
(* weights, every topic returned by identify_hashtag_topics that is not    *)
(* from the default set has between 1 and 5 member hashtags, each with     *)
(* membership weight > 0.2, at most 5 keywords, and strength equal to the  *)
(* mean of its members' weights; topics are ordered by strength            *)
(* non-increasing; and if no topic has a qualifying member the default set *)
(* is returned.                                                            *)

C21_TopicMembersAndStrength ==
    pc = "done" =>
        LET topics == data.hashtag_topics
        IN  /\ raised = ""
            /\ topics # <<>>
            /\ SomeWeightQualifies =>
                   \A t \in 1..Len(topics) :
                       /\ Len(topics[t].hashtags) >= 1
                       /\ Len(topics[t].hashtags) <= 5
                       /\ \A m \in 1..Len(topics[t].hashtags) :
                              /\ topics[t].hashtags[m].score > 20
                              /\ \E i \in 1..Len(trace[1].hashtags_7d) :
                                     /\ trace[1].hashtags_7d[i].hashtag = topics[t].hashtags[m].hashtag
                                     /\ trace[1].hashtags_7d[i].rank = topics[t].hashtags[m].rank
                                     /\ trace[2].fit.scores[i][topics[t].id[2]]
                                            = topics[t].hashtags[m].score
                       /\ Len(topics[t].keywords) <= 5
                       /\ topics[t].strength.den = Len(topics[t].hashtags)
                       /\ topics[t].strength.num =
                              Sum([m \in 1..Len(topics[t].hashtags) |->
                                      topics[t].hashtags[m].score])
            /\ \A t \in 1..(Len(topics) - 1) :
                   topics[t].strength.num * topics[t + 1].strength.den
                       >= topics[t + 1].strength.num * topics[t].strength.den
            /\ ~SomeWeightQualifies => IsDefaultTopicSet(topics)

\* eight hashtags all weighing 0.6 on the second topic and 0.1 on the first:
\* no more than five of them are members
C21_Witness ==
    /\ pc = "done"
    /\ Len(trace[1].hashtags_7d) = 8
    /\ \A d \in 1..8 : trace[2].fit.scores[d][2] = 60
    /\ Len(data.hashtag_topics) = 1
    /\ data.hashtag_topics[1].id[2] = 2
    /\ Len(data.hashtag_topics[1].hashtags) = 5
    /\ data.hashtag_topics[1].strength = [num |-> 300, den |-> 5]

\* every weight is 0.2 or less, and the default set came back
C21_AllDropped ==
    /\ pc = "done"
    /\ ~SomeWeightQualifies
    /\ IsDefaultTopicSet(data.hashtag_topics)

----------------------------------------------------------------------------
(* categorize_hashtag on texts put together from parts: an optional '#',   *)
(* then words joined by nothing, '_', '-', ' ' or '#'.                     *)

TextParts ==
    { <<"D","a","n","c","e">>, <<"m","o","m">>, <<"w","o","r">>,
      <<"k","o","u","t">>, <<"x","y">>, <<"F","O","O","D">> }

TextJoints == { <<>>, <<"_">>, <<"-">>, <<" ">>, <<"#">> }

RECURSIVE JoinedTexts(_)
JoinedTexts(n) ==
    IF n = 1 THEN TextParts
    ELSE { t \o j \o w : t \in JoinedTexts(n - 1), j \in TextJoints, w \in TextParts }

HashtagTexts ==
    { lead \o t : lead \in { <<>>, <<"#">> },
                  t \in UNION { JoinedTexts(n) : n \in 1..MaxTextParts } }

InitCategorize ==
    /\ \E t \in HashtagTexts :
           data = [keys |-> {"hashtag"}, hashtag |-> t, categories |-> <<>>]
    /\ pc = "start"
    /\ trace = <<data>>
    /\ raised = ""

\* hashtag["categories"] = self.categorize_hashtag(hashtag["hashtag"])
CategorizeHashtag ==
    /\ pc = "start"
    /\ data' = Put(data, "categories", categorize_hashtag(data.hashtag))
    /\ trace' = Append(trace, data')
    /\ pc' = "done"
    /\ UNCHANGED raised

NextCategorize == CategorizeHashtag

SpecCategorize == InitCategorize /\ [][NextCategorize]_vars

\* the text character by character: lowercased, '#' dropped, '_' and '-'
\* turned into spaces
NormalizedChars(t) ==
    LET kept == SelectSeq(Lower(t), LAMBDA c : c # "#")
    IN  [i \in 1..Len(kept) |-> IF kept[i] \in {"_", "-"} THEN " " ELSE kept[i]]

\* the categories with a keyword somewhere in the normalized text
MatchingCategories(t) ==
    { category_keywords[c].category : c \in
        { c \in 1..Len(category_keywords) :
            \E k \in 1..Len(category_keywords[c].keywords) :
                Contains(NormalizedChars(t), category_keywords[c].keywords[k]) } }

----------------------------------------------------------------------------
(* C22: categorize_hashtag returns a non-empty list without duplicates     *)
(* that contains exactly the categories having at least one keyword        *)
(* occurring as a substring of the normalized text (lowercased, '#'        *)
(* removed, '_' and '-' replaced by spaces); the result equals {other}     *)
(* exactly when no category matches, and 'other' never appears together    *)
(* with another category.                                                  *)

C22_ExactlyMatchingCategories ==
    pc = "done" /\ "hashtag" \in DOMAIN data /\ "categories" \in DOMAIN data =>
        LET categories == data.categories
            matching == MatchingCategories(data.hashtag)
        IN  /\ categories # <<>>
            /\ Cardinality(Range(categories)) = Len(categories)
            /\ matching # {} => Range(categories) = matching
            /\ (Range(categories) = {"other"}) <=> (matching = {})
            /\ "other" \in Range(categories) => categories = <<"other">>

\* "#Dance#mom": two categories, the first found through an uppercase letter
C22_Witness ==
    /\ pc = "done"
    /\ "hashtag" \in DOMAIN data /\ "categories" \in DOMAIN data
    /\ data.hashtag = <<"#","D","a","n","c","e","#","m","o","m">>
    /\ data.categories = <<"entertainment", "family">>

----------------------------------------------------------------------------
(* parse_count over every kind of argument.  A Python value is a record    *)
(* with its type: None, a str (its characters) or a number (in whole       *)
(* posts; 15000 == 15000.0, so int and float are not told apart).  The     *)
(* strings are those whose count is a whole number of posts.               *)

NoneValue == [type |-> "NoneType"]

StrValue(t) == [type |-> "str", str |-> t]

NumberValue(n) == [type |-> "number", number |-> n]

\* mutant: anything that is not a string gives 0
ParseCountStringsOnly(count_str) ==
    IF count_str.type = "str" THEN NumberValue(parse_count(count_str.str))
    ELSE NumberValue(0)

\* parse_count: the falsy values give 0, a number is returned as it is, a
\* string goes through the try block
ParseCount(count_str) ==
    IF count_str.type = "NoneType" THEN NumberValue(0)
    ELSE IF count_str.type = "number"
    THEN IF count_str.number = 0 THEN NumberValue(0) ELSE count_str
    ELSE NumberValue(parse_count(count_str.str))

CountSuffixes == { <<"K">>, <<"k">>, <<"M">>, <<"m">>, <<"B">>, <<"b">> }

\* numeric parts that stay below 2^31 posts with every suffix
SmallNumerals == { <<"1">>, <<"2">>, <<"1",".","5">> }

Numerals == SmallNumerals \cup { <<"1","5">>, <<"1",",","2","3","4">>, <<"1",".","2","5">> }

Unparsable == { <<>>, <<"N","/","A">>, <<"a","b","c">>, <<"K">>, <<"-">> }

CountTexts ==
    { n \o x : n \in SmallNumerals, x \in CountSuffixes }
        \cup { n \o x : n \in Numerals, x \in { <<"K">>, <<"k">>, <<"M">>, <<"m">> } }
        \cup { n \in Numerals : \A i \in 1..Len(n) : n[i] # "." }
        \cup Unparsable

CountNumbers == { 0, 15, 15000, 1200000, 1500000000 }

CountValues ==
    {NoneValue} \cup { StrValue(t) : t \in CountTexts }
                \cup { NumberValue(n) : n \in CountNumbers }

InitParse ==
    /\ \E v \in CountValues : data = [keys |-> {"post_count"}, post_count |-> v]
    /\ pc = "start"
    /\ trace = <<data>>
    /\ raised = ""

\* hashtag["numeric_post_count"] = self.parse_count(hashtag["post_count"])
ParsePostCount ==
    /\ pc = "start"
    /\ data' = [keys |-> data.keys \cup {"numeric_post_count"},
                post_count |-> data.post_count,
                numeric_post_count |-> ParseCount(data.post_count)]
    /\ trace' = Append(trace, data')
    /\ pc' = "parsed"
    /\ UNCHANGED raised

\* parse_count on a count that parse_count returned
ParseNumericCount ==
    /\ pc = "parsed"
    /\ data' = [keys |-> data.keys \cup {"parsed_again"},
                post_count |-> data.post_count,
                numeric_post_count |-> data.numeric_post_count,
                parsed_again |-> ParseCount(data.numeric_post_count)]
    /\ trace' = Append(trace, data')
    /\ pc' = "parsed_again"
    /\ UNCHANGED raised

NextParse == ParsePostCount \/ ParseNumericCount

SpecParse == InitParse /\ [][NextParse]_vars

\* text is a number (digits, ',' and at most one '.') followed by one letter
HasSuffix(text, letters) ==
    /\ Len(text) >= 2
    /\ text[Len(text)] \in letters
    /\ IsDigit(text[1])
    /\ \A i \in 1..(Len(text) - 1) : IsDigit(text[i]) \/ text[i] \in {",", "."}

\* the digits of the numeric part read as one integer, and the number of
\* digits behind the '.'
WrittenDigits(text) == DigitsValue(SelectSeq(text, IsDigit))

WrittenDecimals(text) ==
    IF \E i \in 1..Len(text) : text[i] = "."
    THEN Len(text) - 1 - (CHOOSE i \in 1..Len(text) : text[i] = ".")
    ELSE 0

Multiplied(text, multiplier) ==
    WrittenDigits(text) * (multiplier \div PowerOfTen(WrittenDecimals(text)))

----------------------------------------------------------------------------
(* C23: parse_count is idempotent: for every input (missing, unparsable    *)
(* string, string with K/M/B suffix in either case, or a number)           *)
(* parse_count(parse_count(x)) = parse_count(x); a numeric input is        *)
(* returned unchanged, a missing or unparsable input yields 0, and a       *)
(* suffix K, M or B multiplies the numeric part by 10^3, 10^6 or 10^9.     *)

C23_ParseCountIdempotent ==
    pc = "parsed_again" /\ "parsed_again" \in DOMAIN data =>
        LET x == data.post_count
            once == data.numeric_post_count
        IN  /\ data.parsed_again = once
            /\ x.type = "number" => once = x
            /\ x.type = "NoneType" => once.number = 0
            /\ x.type = "str" /\ (\A i \in 1..Len(x.str) : ~IsDigit(x.str[i]))
                   => once.number = 0
            /\ x.type = "str" /\ HasSuffix(x.str, {"K", "k"})
                   => once.number = Multiplied(x.str, 1000)
            /\ x.type = "str" /\ HasSuffix(x.str, {"M", "m"})
                   => once.number = Multiplied(x.str, 1000000)
            /\ x.type = "str" /\ HasSuffix(x.str, {"B", "b"})
                   => once.number = Multiplied(x.str, 1000000000)

\* "1.25m" gives 1250000, and 1250000 gives itself
C23_Witness ==
    /\ pc = "parsed_again"
    /\ "parsed_again" \in DOMAIN data
    /\ data.post_count = StrValue(<<"1",".","2","5","m">>)
    /\ data.numeric_post_count = NumberValue(1250000)
    /\ data.parsed_again = NumberValue(1250000)

----------------------------------------------------------------------------
(* TrendAnalyzer.have_trends_changed.  A file is absent, unreadable (not   *)
(* JSON), or holds a dict; json.dump followed by json.load gives back the  *)
(* dicts of strings, numbers and lists written here.                       *)

NoFile == [exists |-> FALSE, readable |-> FALSE, content |-> <<>>]

UnreadableFile == [exists |-> TRUE, readable |-> FALSE, content |-> <<>>]

JsonFile(content) == [exists |-> TRUE, readable |-> TRUE, content |-> content]

\* the first n records of list all have the key
HaveKey(list, n, key) == \A i \in 1..Min(n, Len(list)) : key \in list[i].keys

\* set(r[key] for r in list[:n])
TopNames(list, n, key) == { list[i][key] : i \in 1..Min(n, Len(list)) }

\* mutant: a hashtag counts as changed when it is new in the current top 5
have_trends_changed_by_newcomers(last_run_file, current_data) ==
    IF ~last_run_file.exists
    THEN [value |-> TRUE, error |-> FALSE, last_run_file |-> last_run_file]
    ELSE LET last_data == last_run_file.content
             last_hashtags == Get(last_data, "hashtags_7d", <<>>)
             current_hashtags == Get(current_data, "hashtags_7d", <<>>)
             last_songs == Get(last_data, "trending_songs", <<>>)
             current_songs == Get(current_data, "trending_songs", <<>>)
         IN  IF \/ ~last_run_file.readable
                \/ ~HaveKey(last_hashtags, 5, "hashtag")
                \/ ~HaveKey(current_hashtags, 5, "hashtag")
                \/ ~HaveKey(last_songs, 3, "song_name")
                \/ ~HaveKey(current_songs, 3, "song_name")
             THEN [value |-> TRUE, error |-> TRUE, last_run_file |-> last_run_file]
             ELSE LET last_top5 == TopNames(last_hashtags, 5, "hashtag")
                      current_top5 == TopNames(current_hashtags, 5, "hashtag")
                      hashtags_changed == Cardinality(current_top5 \ last_top5) >= 2
                      last_top3 == TopNames(last_songs, 3, "song_name")
                      current_top3 == TopNames(current_songs, 3, "song_name")
                      songs_changed == Cardinality(last_top3 \ current_top3) >= 1
                  IN  [value |-> hashtags_changed \/ songs_changed,
                       error |-> FALSE,
                       last_run_file |-> JsonFile(current_data)]

\* the returned value, whether the except branch was taken, and the last-run
\* file after the call
have_trends_changed(last_run_file, current_data) ==
    IF ~last_run_file.exists
    THEN [value |-> TRUE, error |-> FALSE, last_run_file |-> last_run_file]
    ELSE LET last_data == last_run_file.content
             last_hashtags == Get(last_data, "hashtags_7d", <<>>)
             current_hashtags == Get(current_data, "hashtags_7d", <<>>)
             last_songs == Get(last_data, "trending_songs", <<>>)
             current_songs == Get(current_data, "trending_songs", <<>>)
         IN  IF \/ ~last_run_file.readable
                \/ ~HaveKey(last_hashtags, 5, "hashtag")
                \/ ~HaveKey(current_hashtags, 5, "hashtag")
                \/ ~HaveKey(last_songs, 3, "song_name")
                \/ ~HaveKey(current_songs, 3, "song_name")
             THEN [value |-> TRUE, error |-> TRUE, last_run_file |-> last_run_file]
             ELSE LET last_top5 == TopNames(last_hashtags, 5, "hashtag")
                      current_top5 == TopNames(current_hashtags, 5, "hashtag")
                      hashtags_changed == Cardinality(last_top5 \ current_top5) >= 2
                      last_top3 == TopNames(last_songs, 3, "song_name")
                      current_top3 == TopNames(current_songs, 3, "song_name")
                      songs_changed == Cardinality(last_top3 \ current_top3) >= 1
                  IN  [value |-> hashtags_changed \/ songs_changed,
                       error |-> FALSE,
                       last_run_file |-> JsonFile(current_data)]

----------------------------------------------------------------------------
(* AutoUpdater.run_update, cycle after cycle.  data holds the four files,  *)
(* the calls made in the current cycle, the dict run_pipeline works on,    *)
(* the result of have_trends_changed, of push_to_github, of run_pipeline   *)
(* ("True", "False", or "raised") and of run_update.                       *)

\* what run_full_scrape returns: one 7-day hashtag with its metrics, one
\* trending song with its metrics (last_updated is left out)
CycleScrapes ==
    { [NoData EXCEPT
          !.hashtags_7d = << ForecastHashtag(2, 1, move, 100001, "new") >>,
          !.trending_songs =
              MeasureTrending(<< [ScrapedSong(s, "trending", <<"stable", 0>>,
                                              <<"1","5","K">>) EXCEPT !.rank = 1] >>)] :
        move \in { <<"up", 12>>, <<"down", 12>> }, s \in {1, 2} }

InitCycle ==
    /\ \E last_run \in {NoFile} \cup { JsonFile(s) : s \in CycleScrapes } :
           data = [files |-> [current_data |-> NoFile, trendData |-> NoFile,
                              last_run_data |-> last_run, aiTrendInsights |-> NoFile],
                   cycle |-> 1,
                   calls |-> <<>>,
                   combined_data |-> NoData,
                   enhanced_data |-> NoData,
                   changed |-> [value |-> FALSE, error |-> FALSE],
                   pushed |-> FALSE,
                   success |-> "pending",
                   returned |-> "pending"]
    /\ pc = "run_scraper"
    /\ trace = <<>>
    /\ raised = ""

\* result = self.run_scraper(): an exception inside the scraper gives None and
\* run_pipeline returns False; otherwise save_data has written the raw data to
\* data/current_data.json and docs/trendData.json
RunScraper ==
    /\ pc = "run_scraper"
    /\ \/ /\ data' = [data EXCEPT !.calls = Append(@, "run_scraper"),
                                  !.success = "False"]
          /\ pc' = "run_update"
       \/ /\ \E s \in CycleScrapes :
                 data' = [data EXCEPT !.calls = @ \o <<"run_scraper", "save_data">>,
                                      !.files.current_data = JsonFile(s),
                                      !.files.trendData = JsonFile(s),
                                      !.combined_data = s]
          /\ pc' = "have_trends_changed"
    /\ UNCHANGED <<trace, raised>>

\* if not self.have_trends_changed(combined_data): return False
HaveTrendsChanged ==
    /\ pc = "have_trends_changed"
    /\ LET r == have_trends_changed(data.files.last_run_data, data.combined_data)
       IN  /\ data' = [data EXCEPT !.calls = Append(@, "have_trends_changed"),
                                   !.files.last_run_data = r.last_run_file,
                                   !.changed = [value |-> r.value, error |-> r.error],
                                   !.success = IF r.value THEN @ ELSE "False"]
           /\ pc' = IF r.value THEN "analyze_trends" ELSE "run_update"
    /\ UNCHANGED <<trace, raised>>

\* analyzed_data = self.analyze_trends(combined_data)
CycleAnalyzeTrends ==
    /\ pc = "analyze_trends"
    /\ data' = [data EXCEPT !.calls = Append(@, "analyze_trends"),
                            !.combined_data = analyze_trends(@)]
    /\ pc' = "save_dashboard_data"
    /\ UNCHANGED <<trace, raised>>

\* self.save_dashboard_data(analyzed_data): writes docs/trendData.json, or
\* open() raises OSError, which leaves run_pipeline
SaveDashboardData ==
    /\ pc = "save_dashboard_data"
    /\ \/ /\ data' = [data EXCEPT !.calls = Append(@, "save_dashboard_data"),
                                  !.files.trendData = JsonFile(data.combined_data)]
          /\ pc' = "push_to_github"
       \/ /\ data' = [data EXCEPT !.calls = Append(@, "save_dashboard_data"),
                                  !.success = "raised"]
          /\ pc' = "run_update"
    /\ UNCHANGED <<trace, raised>>

\* mutant: run_pipeline returns what push_to_github returned
PushToGithubDecides ==
    /\ pc = "push_to_github"
    /\ \E pushed \in BOOLEAN :
           data' = [data EXCEPT !.calls = Append(@, "push_to_github"),
                                !.pushed = pushed,
                                !.success = IF pushed THEN "True" ELSE "False"]
    /\ pc' = "run_update"
    /\ UNCHANGED <<trace, raised>>

\* self.push_to_github() returns True or False and never raises; return True
PushToGithub ==
    /\ pc = "push_to_github"
    /\ \E pushed \in BOOLEAN :
           data' = [data EXCEPT !.calls = Append(@, "push_to_github"),
                                !.pushed = pushed,
                                !.success = "True"]
    /\ pc' = "run_update"
    /\ UNCHANGED <<trace, raised>>

\* mutant: the AI analysis runs whatever run_pipeline returned
RunUpdateAlwaysAnalyzes ==
    /\ pc = "run_update"
    /\ IF data.success # "raised"
       THEN /\ pc' = "analyze"
            /\ UNCHANGED data
       ELSE /\ pc' = "returned"
            /\ data' = [data EXCEPT !.returned = "False"]
    /\ UNCHANGED <<trace, raised>>

\* run_update after run_pipeline: "if success" goes on to the AI analysis,
\* otherwise success is returned; an exception of run_pipeline returns False
RunUpdate ==
    /\ pc = "run_update"
    /\ IF data.success = "True"
       THEN /\ pc' = "analyze"
            /\ UNCHANGED data
       ELSE /\ pc' = "returned"
            /\ data' = [data EXCEPT !.returned = "False"]
    /\ UNCHANGED <<trace, raised>>

\* self.ai_analyzer.analyze(): reads data/current_data.json, adds the three
\* AI keys, writes docs/aiTrendInsights.json and adds the keys to
\* docs/trendData.json; an exception on the way is caught by run_update
Analyze ==
    /\ pc = "analyze"
    /\ \/ /\ data.files.current_data.exists
          /\ data.files.current_data.readable
          /\ LET loaded == data.files.current_data.content
                 hashtags == Get(loaded, "hashtags_7d", <<>>)
             IN  \E fit \in Fits(Len(hashtags), 5) :
                 \E rnd \in [1..Min(5, Len(hashtags)) -> Perturbations] :
                     LET topics == identify_hashtag_topics(hashtags, 5, fit)
                         d1 == Put(loaded, "hashtag_topics", topics.value)
                         d2 == Put(d1, "trend_predictions",
                                   predict_trend_future(Get(d1, "hashtags_7d", <<>>),
                                                        Get(d1, "hashtags_30d", <<>>)))
                         enhanced_data ==
                             Put(d2, "content_recommendations",
                                 generate_content_recommendations(
                                     Get(d2, "hashtags_7d", <<>>),
                                     Get(d2, "trending_songs", <<>>),
                                     Get(d2, "hashtag_topics", <<>>), rnd))
                         main_data == data.files.trendData.content
                     IN  /\ topics.raised = ""
                         /\ data' = [data EXCEPT
                                !.calls = @ \o <<"analyze", "aiTrendInsights">>,
                                !.enhanced_data = enhanced_data,
                                !.files.aiTrendInsights = JsonFile(enhanced_data),
                                !.files.trendData =
                                    IF @.exists /\ @.readable
                                    THEN JsonFile(
                                        Put(Put(Put(main_data,
                                            "hashtag_topics", enhanced_data.hashtag_topics),
                                            "trend_predictions", enhanced_data.trend_predictions),
                                            "content_recommendations",
                                            enhanced_data.content_recommendations))
                                    ELSE @,
                                !.returned = "True"]
       \/ \* analyze raises before it has written anything
          data' = [data EXCEPT !.calls = Append(@, "analyze"),
                               !.returned = "True"]
    /\ pc' = "returned"
    /\ UNCHANGED <<trace, raised>>

\* the loop of start(): the next run_update
NextCycleStarts ==
    /\ pc = "returned"
    /\ data.cycle < MaxCycles
    /\ data' = [data EXCEPT !.cycle = @ + 1,
                            !.calls = <<>>,
                            !.combined_data = NoData,
                            !.enhanced_data = NoData,
                            !.changed = [value |-> FALSE, error |-> FALSE],
                            !.pushed = FALSE,
                            !.success = "pending",
                            !.returned = "pending"]
    /\ pc' = "run_scraper"
    /\ UNCHANGED <<trace, raised>>

NextCycle ==
    \/ RunScraper
    \/ HaveTrendsChanged
    \/ CycleAnalyzeTrends
    \/ SaveDashboardData
    \/ PushToGithub
    \/ RunUpdate
    \/ Analyze
    \/ NextCycleStarts

SpecCycle == InitCycle /\ [][NextCycle]_vars

\* run_pipeline has just returned or raised
PipelineLeft == pc = "run_update"

EnrichmentKeys == {"hashtag_clusters", "emerging_trends", "category_analysis"}

----------------------------------------------------------------------------
(* C24: in an update cycle where run_pipeline succeeds and                 *)
(* AITrendAnalyzer.analyze() then runs on the stored snapshot, the         *)
(* predictions are computed from the enriched records: each Prediction's   *)
(* current_stage equals the lifecycle_stage that Enrichment assigned to    *)
(* that hashtag in the same cycle.                                         *)

C24_PredictionsFromEnrichedRecords ==
    pc = "returned" /\ data.success = "True" /\ "aiTrendInsights" \in Range(data.calls) =>
        LET predictions == data.files.aiTrendInsights.content.trend_predictions
            enriched == data.combined_data.hashtags_7d
        IN  \A p \in 1..Len(predictions) : \A h \in 1..Len(enriched) :
                predictions[p].hashtag = enriched[h].hashtag
                    => predictions[p].current_stage = enriched[h].lifecycle_stage

----------------------------------------------------------------------------
(* C25: whenever run_pipeline returns after a successful scrape, whether   *)
(* or not a change was detected, the dashboard file docs/trendData.json    *)
(* holds enriched data, i.e. a report containing hashtag_clusters,         *)
(* emerging_trends and category_analysis.                                  *)

C25_DashboardHoldsEnrichedData ==
    PipelineLeft /\ data.success \in {"True", "False"} /\ "save_data" \in Range(data.calls) =>
        /\ data.files.trendData.exists
        /\ EnrichmentKeys \subseteq data.files.trendData.content.keys

----------------------------------------------------------------------------
(* C26: every call of have_trends_changed that returns without an         *)
(* internal error leaves the last-run snapshot equal to the data passed to *)
(* that call, including the first call when no snapshot exists yet, so     *)
(* that a following run with identical data is reported as unchanged.      *)

C26_SnapshotIsTheDataPassed ==
    /\ data.calls # <<>>
    /\ data.calls[Len(data.calls)] = "have_trends_changed"
    /\ ~data.changed.error
    => data.files.last_run_data = JsonFile(data.combined_data)

----------------------------------------------------------------------------
(* C28: in AutoUpdater.run_update, the AI analysis is invoked in a cycle   *)
(* if and only if run_pipeline returned a true value in that cycle;        *)
(* run_update returns the pipeline's result even when the AI analysis      *)
(* raises, returns False when the pipeline raises, and never propagates an *)
(* exception.                                                              *)

C28_AnalysisOnlyAfterSuccess ==
    pc = "returned" =>
        /\ ("analyze" \in Range(data.calls)) <=> (data.success = "True")
        /\ data.success \in {"True", "False"} => data.returned = data.success
        /\ data.success = "raised" => data.returned = "False"
        /\ raised = ""

\* the AI analysis raised after a successful pipeline, and True came back
C28_Witness ==
    /\ pc = "returned"
    /\ data.success = "True"
    /\ "analyze" \in Range(data.calls)
    /\ "aiTrendInsights" \notin Range(data.calls)
    /\ data.returned = "True"

----------------------------------------------------------------------------
(* C29: run_pipeline returns True only if the scraper returned data and    *)
(* have_trends_changed returned True, and then enrichment, saving of the   *)
(* dashboard file and the push are executed in that order with a failed    *)
(* push not changing the True result; when scraping fails or no change is  *)
(* detected it returns False and runs none of enrichment,                  *)
(* save_dashboard_data or its own push.                                    *)

----------------------------------------------------------------------------
(* have_trends_changed on longer lists.  The records carry their name      *)
(* only; a record without it stands for a snapshot of another shape.       *)

NamedHashtag(name) == [keys |-> {"hashtag"}, hashtag |-> name]

NamedSong(name) == [keys |-> {"song_name"}, song_name |-> name]

NamedList(names, record(_)) == [i \in 1..Len(names) |-> record(names[i])]

HashtagRankings ==
    { <<>>, <<"a">>, <<"a", "b", "c">>,
      <<"a", "b", "c", "d", "e">>, <<"e", "d", "c", "b", "a">>,
      <<"a", "b", "c", "d", "f">>, <<"a", "b", "c", "f", "g">>,
      <<"a", "b", "c", "d", "e", "f">>, <<"a", "b", "c", "d", "f", "e">>,
      <<"a", "b", "c", "f", "g", "d", "e">> }

SongRankings ==
    { <<>>, <<"s1">>, <<"s1", "s2", "s3">>, <<"s3", "s1", "s2">>,
      <<"s1", "s2", "s3", "s4">>, <<"s1", "s2", "s4", "s3">> }

Snapshots ==
    { [keys |-> {"hashtags_7d", "trending_songs"},
       hashtags_7d |-> NamedList(h, NamedHashtag),
       trending_songs |-> NamedList(t, NamedSong)] :
        h \in HashtagRankings, t \in SongRankings }

\* snapshots that make the comparison fail: no name in a record, in the
\* hashtags or in the songs
OddSnapshots ==
    { [keys |-> {"hashtags_7d", "trending_songs"},
       hashtags_7d |-> << [keys |-> {"rank"}, hashtag |-> ""] >>,
       trending_songs |-> << NamedSong("s1") >>],
      [keys |-> {"hashtags_7d", "trending_songs"},
       hashtags_7d |-> << NamedHashtag("a") >>,
       trending_songs |-> << [keys |-> {"rank"}, song_name |-> ""] >>] }

InitChanged ==
    /\ \E last_run \in {NoFile, UnreadableFile}
                        \cup { JsonFile(d) : d \in Snapshots \cup OddSnapshots } :
       \E current \in Snapshots \cup OddSnapshots :
           data = [last_run_file |-> last_run, current_data |-> current, value |-> FALSE]
    /\ pc = "start"
    /\ trace = <<data>>
    /\ raised = ""

\* self.have_trends_changed(combined_data)
CallHaveTrendsChanged ==
    /\ pc = "start"
    /\ LET r == have_trends_changed(data.last_run_file, data.current_data)
       IN  data' = [data EXCEPT !.last_run_file = r.last_run_file, !.value = r.value]
    /\ trace' = Append(trace, data')
    /\ pc' = "done"
    /\ UNCHANGED raised

NextChanged == CallHaveTrendsChanged

SpecChanged == InitChanged /\ [][NextChanged]_vars

\* the snapshot can be loaded and compared with the current data
Comparable(last_run, current) ==
    /\ last_run.exists /\ last_run.readable
    /\ \A d \in {last_run.content, current} :
           /\ \A i \in 1..Min(5, Len(d.hashtags_7d)) : "hashtag" \in d.hashtags_7d[i].keys
           /\ \A i \in 1..Min(3, Len(d.trending_songs)) :
                  "song_name" \in d.trending_songs[i].keys

\* the positions among the first n of previous whose name is not among the
\* first n of current
MissingFromTop(previous, current, n, key) ==
    { i \in 1..Min(n, Len(previous)) :
        \A j \in 1..Min(n, Len(current)) : current[j][key] # previous[i][key] }

----------------------------------------------------------------------------
(* C27: when a readable last-run snapshot exists, have_trends_changed      *)
(* returns True if and only if at least 2 of the previous top-5 7-day      *)
(* hashtags are missing from the current top-5 or at least 1 of the        *)
(* previous top-3 trending songs is missing from the current top-3; the    *)
(* snapshot is overwritten with the current data whether the result is     *)
(* True or False; and any error while reading or comparing yields True.    *)

----------------------------------------------------------------------------
(* TikTokTrendScraper.extract_hashtags and extract_songs: the collecting   *)
(* loop.  data holds which of the two runs, target_count, the list         *)
(* collected so far (name is "hashtag" or "song_name"), the attempt        *)
(* counter and the elements of the page still to be looked at.             *)

HashtagMaxAttempts == 15

SongMaxAttempts == 10

max_attempts(kind) == IF kind = "hashtags" THEN HashtagMaxAttempts ELSE SongMaxAttempts

\* element.text.strip() of the elements that find_elements delivers
ElementTexts == {"", "#a", "#b", "#c"}

Pages == UNION { [1..n -> ElementTexts] : n \in 0..MaxElements }

InitExtract ==
    /\ \E kind \in {"hashtags", "songs"}, target_count \in 0..MaxTargetCount :
           data = [kind |-> kind, target_count |-> target_count,
                   collected |-> <<>>, attempt |-> 0, elements |-> <<>>]
    /\ pc = "while"
    /\ trace = <<>>
    /\ raised = ""

\* the except branch of an attempt: save_screenshot, which may raise itself
AttemptFailed ==
    \/ /\ pc' = "while"
       /\ UNCHANGED raised
    \/ /\ pc' = "returned"
       /\ raised' = "Exception"

\* while len(...) < target_count and attempt < max_attempts: attempt += 1 and
\* find_elements, which raises or delivers the elements of the page
StartAttempt ==
    /\ pc = "while"
    /\ Len(data.collected) < data.target_count
    /\ data.attempt < max_attempts(data.kind)
    /\ \/ /\ data' = [data EXCEPT !.attempt = @ + 1, !.elements = <<>>]
          /\ AttemptFailed
       \/ /\ \E page \in Pages :
                 data' = [data EXCEPT !.attempt = @ + 1, !.elements = page]
          /\ pc' = "for"
          /\ UNCHANGED raised
    /\ UNCHANGED trace

\* mutant: a name already collected is collected again
CollectElementTwice ==
    /\ pc = "for"
    /\ IF data.elements = <<>> \/ Len(data.collected) >= data.target_count
       THEN /\ data' = [data EXCEPT !.elements = <<>>]
            /\ pc' = "view_more"
       ELSE /\ \/ data' = [data EXCEPT !.elements = Tail(@)]
               \/ /\ Head(data.elements) # ""
                  /\ data' = [data EXCEPT
                         !.elements = Tail(@),
                         !.collected = Append(@, [name |-> Head(data.elements),
                                                  rank |-> Len(data.collected) + 1])]
            /\ pc' = "for"
    /\ UNCHANGED <<trace, raised>>

\* one pass of the for loop: break at target_count; an empty or already
\* collected name, a missing container or an exception while reading the
\* element skips it; otherwise the record is appended with rank len + 1
CollectElement ==
    /\ pc = "for"
    /\ IF data.elements = <<>> \/ Len(data.collected) >= data.target_count
       THEN /\ data' = [data EXCEPT !.elements = <<>>]
            /\ pc' = "view_more"
       ELSE /\ \/ data' = [data EXCEPT !.elements = Tail(@)]
               \/ /\ Head(data.elements) # ""
                  /\ \A i \in 1..Len(data.collected) :
                         data.collected[i].name # Head(data.elements)
                  /\ data' = [data EXCEPT
                         !.elements = Tail(@),
                         !.collected = Append(@, [name |-> Head(data.elements),
                                                  rank |-> Len(data.collected) + 1])]
            /\ pc' = "for"
    /\ UNCHANGED <<trace, raised>>

\* after the for loop: below target_count the page is asked for more (a
\* screenshot, clicks and scripts, any of which may raise), otherwise break
ViewMore ==
    /\ pc = "view_more"
    /\ IF Len(data.collected) < data.target_count
       THEN \/ /\ pc' = "while"
               /\ UNCHANGED raised
            \/ AttemptFailed
       ELSE /\ pc' = "returned"
            /\ UNCHANGED raised
    /\ UNCHANGED <<data, trace>>

\* the while condition is false: return the list
ReturnCollected ==
    /\ pc = "while"
    /\ ~(Len(data.collected) < data.target_count /\ data.attempt < max_attempts(data.kind))
    /\ pc' = "returned"
    /\ UNCHANGED <<data, trace, raised>>

NextExtract == StartAttempt \/ CollectElement \/ ViewMore \/ ReturnCollected

\* the loop is sequential code: every call in it returns or raises
SpecExtract == InitExtract /\ [][NextExtract]_vars /\ WF_vars(NextExtract)

\* at most target_count records, no name twice, ranks 1..n in list order
CollectedInOrder ==
    /\ Len(data.collected) <= data.target_count
    /\ \A i \in 1..Len(data.collected) : data.collected[i].rank = i
    /\ \A i \in 1..Len(data.collected) : \A j \in 1..Len(data.collected) :
           i # j => data.collected[i].name # data.collected[j].name

----------------------------------------------------------------------------
(* C30: extract_hashtags (and likewise extract_songs) terminates after at  *)
(* most max_attempts extraction attempts whatever the page returns or      *)
(* raises, and at every point the collected list has at most target_count  *)
(* records, pairwise distinct names, and ranks equal to 1..n in list       *)
(* order.                                                                  *)

C30_ExtractionBounded ==
    /\ [](data.attempt <= max_attempts(data.kind) /\ CollectedInOrder)
    /\ <>(pc = "returned")

\* the songs run gave up after its tenth attempt with one of two songs
C30_Witness ==
    /\ pc = "returned"
    /\ raised = ""
    /\ "kind" \in DOMAIN data
    /\ data.kind = "songs"
    /\ data.attempt = SongMaxAttempts
    /\ data.target_count = 2
    /\ Len(data.collected) = 1

====
